---- MODULE Spec2Model ----
(***************************************************************************)
(* Model of the aicode translating proxy: the shared proxy package         *)
(* (AuthMiddleware, ValidateRequest, ValidateAnthropicRequest, the two     *)
(* converters, Proxy.HandleMessages, Proxy.HandleHealth) and the main      *)
(* function that mounts the handlers and handles the shutdown signal.      *)
(*                                                                         *)
(* Conventions                                                             *)
(*  - Header values that the code splits or indexes (Authorization, the    *)
(*    base URL) are sequences of one-character strings; other strings are  *)
(*    TLA+ strings.                                                        *)
(*  - A message built by fmt.Sprintf / fmt.Errorf is the sequence of its   *)
(*    pieces (format text and arguments), numbers printed with ToString.   *)
(*  - float64 fields (temperature, top_p) are counted in hundredths:       *)
(*    2.0 is 200, 2.01 is 201, 1.0 is 100.                                 *)
(***************************************************************************)
EXTENDS Integers, Sequences, FiniteSets, TLC

VARIABLES
    config,   \* the Config the Proxy was built with (proxy.Config)
    server,   \* main's http.Server and process: phase, Shutdown's progress
    reqs,     \* one record per inbound HTTP request (one goroutine each)
    conv      \* one call of a converter function: its argument and result

vars == <<config, server, reqs, conv>>

-----------------------------------------------------------------------------
(* Bounds of the model *)

\* number of requests the concurrent specification handles at once
NReq == 2

-----------------------------------------------------------------------------
(* Program constants *)

MaxRequestBodySize == 10 * 1024 * 1024
MaxMessages == 100
MaxTokens == 100000

StatusOK == 200
StatusBadRequest == 400
StatusUnauthorized == 401
StatusMethodNotAllowed == 405
StatusRequestEntityTooLarge == 413
StatusInternalServerError == 500
StatusBadGateway == 502

-----------------------------------------------------------------------------
(* Small helpers *)

Min(a, b) == IF a <= b THEN a ELSE b

Range(s) == {s[i] : i \in 1..Len(s)}

\* strings.Join(parts, sep)
RECURSIVE Join(_, _)
Join(parts, sep) ==
    IF parts = <<>> THEN ""
    ELSE IF Len(parts) = 1 THEN parts[1]
    ELSE parts[1] \o sep \o Join(Tail(parts), sep)

\* strings.SplitN(s, " ", 2) on a sequence of characters
SplitN2(s) ==
    IF \E i \in 1..Len(s) : s[i] = " "
    THEN LET i == CHOOSE k \in 1..Len(s) :
                      s[k] = " " /\ \A j \in 1..(k-1) : s[j] # " "
         IN  <<SubSeq(s, 1, i-1), SubSeq(s, i+1, Len(s))>>
    ELSE <<s>>

Bearer == <<"B", "e", "a", "r", "e", "r">>

-----------------------------------------------------------------------------
(* Data model: models.go *)

\* interface{} content values after json.Unmarshal
ContentString(s) == [kind |-> "string", str |-> s, blocks |-> <<>>]
ContentList(bs)  == [kind |-> "list", str |-> "", blocks |-> bs]
\* any other decoded value; str is what fmt.Sprintf("%v", v) prints for it
ContentOther(p)  == [kind |-> "other", str |-> p, blocks |-> <<>>]
\* the nil interface (field absent or JSON null); %v prints "<nil>"
ContentNil       == [kind |-> "nil", str |-> "<nil>", blocks |-> <<>>]

\* elements of a []interface{} content list
TextBlock(t)   == [isMap |-> TRUE, textIsString |-> TRUE, text |-> t]
OtherBlock     == [isMap |-> TRUE, textIsString |-> FALSE, text |-> ""]
NonMapElement  == [isMap |-> FALSE, textIsString |-> FALSE, text |-> ""]

AnthropicMessage(role, content) == [Role |-> role, Content |-> content]

AnthropicRequest(model, messages, maxTokens, temperature, topP, system) ==
    [Model |-> model, Messages |-> messages, MaxTokens |-> maxTokens,
     Temperature |-> temperature, TopP |-> topP, System |-> system]

ProviderMessage(role, content) == [Role |-> role, Content |-> content]

-----------------------------------------------------------------------------
(* converter.go *)

\* the text of the blocks that are maps with a string "text", in list order
RECURSIVE BlockTexts(_)
BlockTexts(bs) ==
    IF bs = <<>> THEN <<>>
    ELSE (IF bs[1].isMap /\ bs[1].textIsString THEN <<bs[1].text>> ELSE <<>>)
         \o BlockTexts(Tail(bs))

\* an extractor that puts the texts of the blocks one after the other with
\* nothing between them
extractContentStringConcat(content) ==
    CASE content.kind = "string" -> content.str
      [] content.kind = "list"   -> Join(BlockTexts(content.blocks), "")
      [] OTHER                   -> content.str

extractContentString(content) ==
    CASE content.kind = "string" -> content.str
      [] content.kind = "list"   -> Join(BlockTexts(content.blocks), "\n")
      [] OTHER                   -> content.str

\* an extractor that refuses what is neither a string nor a list
extractContentStringErrStrict(content) ==
    CASE content.kind = "string" -> "nil"
      [] content.kind = "list"   -> "nil"
      [] OTHER                   -> "unsupported content type"

\* the error result of extractContentString: nil on each of its three returns
extractContentStringErr(content) ==
    CASE content.kind = "string" -> "nil"
      [] content.kind = "list"   -> "nil"
      [] OTHER                   -> "nil"

\* the error result of ConvertAnthropicToProvider: the first extraction error
\* met, the system field before the messages in their order
ConvertAnthropicToProviderErr(req) ==
    IF req.System.kind # "nil" /\ extractContentStringErr(req.System) # "nil"
    THEN <<"failed to extract system message: ",
           extractContentStringErr(req.System)>>
    ELSE IF \E i \in 1..Len(req.Messages) :
                extractContentStringErr(req.Messages[i].Content) # "nil"
    THEN LET i == CHOOSE k \in 1..Len(req.Messages) :
                    /\ extractContentStringErr(req.Messages[k].Content) # "nil"
                    /\ \A j \in 1..(k - 1) :
                          extractContentStringErr(req.Messages[j].Content) = "nil"
         IN  <<"failed to extract message content: ",
               extractContentStringErr(req.Messages[i].Content)>>
    ELSE <<>>

\* a converter that adds the system message whenever the field is present,
\* without looking at the extracted string
ConvertAnthropicToProviderAnySystem(req) ==
    LET systemStr == extractContentString(req.System)
        sys == IF req.System.kind # "nil"
               THEN <<ProviderMessage("system", systemStr)>>
               ELSE <<>>
        msgs == [i \in 1..Len(req.Messages) |->
                    ProviderMessage(req.Messages[i].Role,
                                    extractContentString(req.Messages[i].Content))]
    IN  [Model |-> req.Model, Messages |-> sys \o msgs,
         MaxTokens |-> req.MaxTokens, Temperature |-> req.Temperature,
         TopP |-> req.TopP]

\* a converter that leaves out the messages whose content extracts to the
\* empty string
ConvertAnthropicToProviderSkipEmpty(req) ==
    LET systemStr == extractContentString(req.System)
        sys == IF req.System.kind # "nil" /\ systemStr # ""
               THEN <<ProviderMessage("system", systemStr)>>
               ELSE <<>>
        msgs == [i \in 1..Len(req.Messages) |->
                    ProviderMessage(req.Messages[i].Role,
                                    extractContentString(req.Messages[i].Content))]
        HasText(m) == m.Content # ""
    IN  [Model |-> req.Model, Messages |-> sys \o SelectSeq(msgs, HasText),
         MaxTokens |-> req.MaxTokens, Temperature |-> req.Temperature,
         TopP |-> req.TopP]

ConvertAnthropicToProvider(req) ==
    LET systemStr == extractContentString(req.System)
        sys == IF req.System.kind # "nil" /\ systemStr # ""
               THEN <<ProviderMessage("system", systemStr)>>
               ELSE <<>>
        msgs == [i \in 1..Len(req.Messages) |->
                    ProviderMessage(req.Messages[i].Role,
                                    extractContentString(req.Messages[i].Content))]
    IN  [Model |-> req.Model, Messages |-> sys \o msgs,
         MaxTokens |-> req.MaxTokens, Temperature |-> req.Temperature,
         TopP |-> req.TopP]

\* a converter that takes content and finish reason from the last choice
ConvertProviderToAnthropicLastChoice(resp) ==
    LET has == Len(resp.Choices) > 0
        n == Len(resp.Choices)
    IN  [ID |-> "msg_" \o resp.ID,
         Type |-> "message",
         Role |-> "assistant",
         Model |-> resp.Model,
         ContentIsNil |-> ~has,
         Content |-> IF has
                     THEN <<[Type |-> "text", Text |-> resp.Choices[n].Content]>>
                     ELSE <<>>,
         StopReason |-> IF has
                        THEN (IF resp.Choices[n].FinishReason = "stop"
                              THEN "end_turn" ELSE "max_tokens")
                        ELSE "",
         StopSequenceIsNil |-> TRUE,
         Usage |-> [InputTokens |-> resp.Usage.PromptTokens,
                    OutputTokens |-> resp.Usage.CompletionTokens,
                    CacheCreationInputTokens |-> 0,
                    CacheReadInputTokens |-> 0]]

\* a converter that takes the input tokens from completion_tokens and the
\* output tokens from prompt_tokens
ConvertProviderToAnthropicSwappedUsage(resp) ==
    LET has == Len(resp.Choices) > 0
    IN  [ID |-> "msg_" \o resp.ID,
         Type |-> "message",
         Role |-> "assistant",
         Model |-> resp.Model,
         ContentIsNil |-> ~has,
         Content |-> IF has
                     THEN <<[Type |-> "text", Text |-> resp.Choices[1].Content]>>
                     ELSE <<>>,
         StopReason |-> IF has
                        THEN (IF resp.Choices[1].FinishReason = "stop"
                              THEN "end_turn" ELSE "max_tokens")
                        ELSE "",
         StopSequenceIsNil |-> TRUE,
         Usage |-> [InputTokens |-> resp.Usage.CompletionTokens,
                    OutputTokens |-> resp.Usage.PromptTokens,
                    CacheCreationInputTokens |-> 0,
                    CacheReadInputTokens |-> 0]]

\* Content is a Go slice: nil until the choices branch assigns it
ConvertProviderToAnthropic(resp) ==
    LET has == Len(resp.Choices) > 0
    IN  [ID |-> "msg_" \o resp.ID,
         Type |-> "message",
         Role |-> "assistant",
         Model |-> resp.Model,
         ContentIsNil |-> ~has,
         Content |-> IF has
                     THEN <<[Type |-> "text", Text |-> resp.Choices[1].Content]>>
                     ELSE <<>>,
         StopReason |-> IF has
                        THEN (IF resp.Choices[1].FinishReason = "stop"
                              THEN "end_turn" ELSE "max_tokens")
                        ELSE "",
         StopSequenceIsNil |-> TRUE,
         Usage |-> [InputTokens |-> resp.Usage.PromptTokens,
                    OutputTokens |-> resp.Usage.CompletionTokens,
                    CacheCreationInputTokens |-> 0,
                    CacheReadInputTokens |-> 0]]

-----------------------------------------------------------------------------
(* x-ai-proxy.go and z-ai-proxy.go: handleMessages of the two binaries *)

\* the switch over a content value in handleMessages: the texts of a list are
\* appended with += and nothing between them
contentStr(content) ==
    CASE content.kind = "string" -> content.str
      [] content.kind = "list"   -> Join(BlockTexts(content.blocks), "")
      [] OTHER                   -> content.str

\* handleMessages on a parsed request, from the parse to client.Do: no
\* validation step stands between them, so the provider is always called,
\* with the request built inline
handleMessages(req) ==
    LET systemStr == contentStr(req.System)
        sys == IF req.System.kind # "nil" /\ systemStr # ""
               THEN <<ProviderMessage("system", systemStr)>>
               ELSE <<>>
        msgs == [i \in 1..Len(req.Messages) |->
                    ProviderMessage(req.Messages[i].Role,
                                    contentStr(req.Messages[i].Content))]
    IN  [called |-> TRUE,
         body |-> [Model |-> req.Model, Messages |-> sys \o msgs,
                   MaxTokens |-> req.MaxTokens, Temperature |-> req.Temperature,
                   TopP |-> req.TopP]]

-----------------------------------------------------------------------------
(* validator.go *)

\* ValidateRequest without its Content-Length test
ValidateRequestUnchecked(contentLength) == <<>>

\* nil is the empty message
ValidateRequest(contentLength) ==
    IF contentLength > MaxRequestBodySize
    THEN <<"request body too large: ", ToString(contentLength), " bytes (max: ",
           ToString(MaxRequestBodySize), ")">>
    ELSE <<>>

\* ValidateAnthropicRequest with the max_tokens bound exclusive (>= for >)
ValidateAnthropicRequestExclusive(req) ==
    IF req.Model = "" THEN <<"model is required">>
    ELSE IF Len(req.Messages) = 0 THEN <<"messages array cannot be empty">>
    ELSE IF Len(req.Messages) > MaxMessages
         THEN <<"too many messages: ", ToString(Len(req.Messages)), " (max: ",
                ToString(MaxMessages), ")">>
    ELSE IF req.MaxTokens >= MaxTokens
         THEN <<"max_tokens too large: ", ToString(req.MaxTokens), " (max: ",
                ToString(MaxTokens), ")">>
    ELSE IF req.MaxTokens < 0 THEN <<"max_tokens cannot be negative">>
    ELSE IF req.Temperature < 0 \/ req.Temperature > 200
         THEN <<"temperature must be between 0 and 2, got: ",
                ToString(req.Temperature)>>
    ELSE IF req.TopP < 0 \/ req.TopP > 100
         THEN <<"top_p must be between 0 and 1, got: ", ToString(req.TopP)>>
    ELSE <<>>

\* ValidateAnthropicRequest looking at the messages before the model
ValidateAnthropicRequestMessagesFirst(req) ==
    IF Len(req.Messages) = 0 THEN <<"messages array cannot be empty">>
    ELSE IF Len(req.Messages) > MaxMessages
         THEN <<"too many messages: ", ToString(Len(req.Messages)), " (max: ",
                ToString(MaxMessages), ")">>
    ELSE IF req.Model = "" THEN <<"model is required">>
    ELSE IF req.MaxTokens > MaxTokens
         THEN <<"max_tokens too large: ", ToString(req.MaxTokens), " (max: ",
                ToString(MaxTokens), ")">>
    ELSE IF req.MaxTokens < 0 THEN <<"max_tokens cannot be negative">>
    ELSE IF req.Temperature < 0 \/ req.Temperature > 200
         THEN <<"temperature must be between 0 and 2, got: ",
                ToString(req.Temperature)>>
    ELSE IF req.TopP < 0 \/ req.TopP > 100
         THEN <<"top_p must be between 0 and 1, got: ", ToString(req.TopP)>>
    ELSE <<>>

ValidateAnthropicRequest(req) ==
    IF req.Model = "" THEN <<"model is required">>
    ELSE IF Len(req.Messages) = 0 THEN <<"messages array cannot be empty">>
    ELSE IF Len(req.Messages) > MaxMessages
         THEN <<"too many messages: ", ToString(Len(req.Messages)), " (max: ",
                ToString(MaxMessages), ")">>
    ELSE IF req.MaxTokens > MaxTokens
         THEN <<"max_tokens too large: ", ToString(req.MaxTokens), " (max: ",
                ToString(MaxTokens), ")">>
    ELSE IF req.MaxTokens < 0 THEN <<"max_tokens cannot be negative">>
    ELSE IF req.Temperature < 0 \/ req.Temperature > 200
         THEN <<"temperature must be between 0 and 2, got: ",
                ToString(req.Temperature)>>
    ELSE IF req.TopP < 0 \/ req.TopP > 100
         THEN <<"top_p must be between 0 and 1, got: ", ToString(req.TopP)>>
    ELSE <<>>

-----------------------------------------------------------------------------
(* Responses written to the http.ResponseWriter *)

NoPayload == [kind |-> "none"]

\* the header map of a fresh ResponseWriter
NoHeaders == [XRequestID |-> "", ContentType |-> ""]

\* http.Error(w, msg, code): plain-text body, headers already set are kept
HttpError(hdr, msg, code) ==
    [status |-> code, msg |-> msg, payload |-> NoPayload,
     XRequestID |-> hdr.XRequestID,
     ContentType |-> "text/plain; charset=utf-8"]

\* w.WriteHeader(200) followed by json.NewEncoder(w).Encode(payload)
JsonOK(hdr, payload) ==
    [status |-> StatusOK, msg |-> <<>>, payload |-> payload,
     XRequestID |-> hdr.XRequestID,
     ContentType |-> "application/json"]

NoResp == [status |-> 0, msg |-> <<>>, payload |-> NoPayload,
           XRequestID |-> "", ContentType |-> ""]

-----------------------------------------------------------------------------
(* middleware.go *)

\* AuthMiddleware without the comparison of the token
AuthMiddlewareSchemeOnly(cfg, path, authHeader) ==
    IF path = "/health" THEN [pass |-> TRUE, resp |-> NoResp]
    ELSE IF ~cfg.AuthRequired \/ cfg.ProxyAuthToken = <<>>
         THEN [pass |-> TRUE, resp |-> NoResp]
    ELSE IF authHeader = <<>>
         THEN [pass |-> FALSE,
               resp |-> HttpError(NoHeaders, <<"Authorization header required">>,
                                  StatusUnauthorized)]
    ELSE LET parts == SplitN2(authHeader)
         IN  IF Len(parts) # 2 \/ parts[1] # Bearer
             THEN [pass |-> FALSE,
                   resp |-> HttpError(NoHeaders,
                              <<"Invalid authorization format. Use: Bearer <token>">>,
                              StatusUnauthorized)]
             ELSE [pass |-> TRUE, resp |-> NoResp]

\* AuthMiddleware letting requests through only when auth is off AND no
\* credential is configured (&& for ||)
AuthMiddlewareBothOff(cfg, path, authHeader) ==
    IF path = "/health" THEN [pass |-> TRUE, resp |-> NoResp]
    ELSE IF ~cfg.AuthRequired /\ cfg.ProxyAuthToken = <<>>
         THEN [pass |-> TRUE, resp |-> NoResp]
    ELSE IF authHeader = <<>>
         THEN [pass |-> FALSE,
               resp |-> HttpError(NoHeaders, <<"Authorization header required">>,
                                  StatusUnauthorized)]
    ELSE LET parts == SplitN2(authHeader)
         IN  IF Len(parts) # 2 \/ parts[1] # Bearer
             THEN [pass |-> FALSE,
                   resp |-> HttpError(NoHeaders,
                              <<"Invalid authorization format. Use: Bearer <token>">>,
                              StatusUnauthorized)]
             ELSE IF parts[2] # cfg.ProxyAuthToken
             THEN [pass |-> FALSE,
                   resp |-> HttpError(NoHeaders, <<"Invalid authorization token">>,
                                      StatusUnauthorized)]
             ELSE [pass |-> TRUE, resp |-> NoResp]

\* AuthMiddleware looking at the flag only: with the flag on and no
\* credential configured it goes on to examine the header
AuthMiddlewareFlagOnly(cfg, path, authHeader) ==
    IF path = "/health" THEN [pass |-> TRUE, resp |-> NoResp]
    ELSE IF ~cfg.AuthRequired
         THEN [pass |-> TRUE, resp |-> NoResp]
    ELSE IF authHeader = <<>>
         THEN [pass |-> FALSE,
               resp |-> HttpError(NoHeaders, <<"Authorization header required">>,
                                  StatusUnauthorized)]
    ELSE LET parts == SplitN2(authHeader)
         IN  IF Len(parts) # 2 \/ parts[1] # Bearer
             THEN [pass |-> FALSE,
                   resp |-> HttpError(NoHeaders,
                              <<"Invalid authorization format. Use: Bearer <token>">>,
                              StatusUnauthorized)]
             ELSE IF parts[2] # cfg.ProxyAuthToken
             THEN [pass |-> FALSE,
                   resp |-> HttpError(NoHeaders, <<"Invalid authorization token">>,
                                      StatusUnauthorized)]
             ELSE [pass |-> TRUE, resp |-> NoResp]

\* The decision of AuthMiddleware's closure for one request: pass = TRUE
\* when next(w, r) is called, otherwise the http.Error it writes.
AuthMiddleware(cfg, path, authHeader) ==
    IF path = "/health" THEN [pass |-> TRUE, resp |-> NoResp]
    ELSE IF ~cfg.AuthRequired \/ cfg.ProxyAuthToken = <<>>
         THEN [pass |-> TRUE, resp |-> NoResp]
    ELSE IF authHeader = <<>>
         THEN [pass |-> FALSE,
               resp |-> HttpError(NoHeaders, <<"Authorization header required">>,
                                  StatusUnauthorized)]
    ELSE LET parts == SplitN2(authHeader)
         IN  IF Len(parts) # 2 \/ parts[1] # Bearer
             THEN [pass |-> FALSE,
                   resp |-> HttpError(NoHeaders,
                              <<"Invalid authorization format. Use: Bearer <token>">>,
                              StatusUnauthorized)]
             ELSE IF parts[2] # cfg.ProxyAuthToken
             THEN [pass |-> FALSE,
                   resp |-> HttpError(NoHeaders, <<"Invalid authorization token">>,
                                      StatusUnauthorized)]
             ELSE [pass |-> TRUE, resp |-> NoResp]

\* main mounts the gate in front of /v1/messages only when AuthRequired is set
GateMounted(cfg, path) == cfg.AuthRequired /\ path = "/v1/messages"

-----------------------------------------------------------------------------
(* proxy.go: Proxy.HandleMessages and Proxy.HandleHealth *)

NoCall == [kind |-> "none"]
NoReq  == [kind |-> "none"]

\* uuid.New().String(): a fresh identifier, one per request that needs it
NewUUID(r) == "uuid-" \o ToString(r)

\* The bytes r.Body delivers to the handler.  The server hands the handler at
\* most Content-Length bytes when the length is declared (>= 0) and the whole
\* stream when it is not (-1, chunked).
Delivered(in) ==
    IF in.contentLength >= 0 THEN Min(in.contentLength, in.body.len)
    ELSE in.body.len

\* io.ReadAll(r.Body) without the limit: every delivered byte is read
ReadUnlimited(in) == Delivered(in)

\* io.ReadAll(io.LimitReader(r.Body, MaxRequestBodySize)): bytes read
ReadLimited(in) == Min(Delivered(in), MaxRequestBodySize)

\* the read fails (unexpected EOF) when the client sent fewer bytes than it
\* declared and the limit did not stop the read first
ReadFails(in) ==
    /\ in.contentLength >= 0
    /\ in.body.len < in.contentLength
    /\ in.body.len < MaxRequestBodySize

\* json.Unmarshal(body, &anthropicReq) on the first n bytes of the body: the
\* JSON value occupies the first jsonLen bytes, what follows it is white space
UnmarshalOK(body, n) == body.wellFormed /\ n >= body.jsonLen

\* http.NewRequest fails when the URL does not parse (a control character)
URLParses(url) == \A i \in 1..Len(url) : url[i] # "\n"

\* the provider URL built without looking for a trailing slash
ProviderURLNoStrip(baseURL) == baseURL \o <<"/chat/completions">>

\* baseURL with one trailing slash removed, then "/chat/completions"
ProviderURL(baseURL) ==
    (IF baseURL # <<>> /\ baseURL[Len(baseURL)] = "/"
     THEN SubSeq(baseURL, 1, Len(baseURL) - 1) ELSE baseURL)
    \o <<"/chat/completions">>

\* The request to the provider: http.NewRequest (no context of the inbound
\* request is attached, so the call runs under context.Background) and the
\* three headers set on it.
ProviderCall(cfg, requestID, providerReq) ==
    [kind |-> "call", method |-> "POST", url |-> ProviderURL(cfg.BaseURL),
     Authorization |-> <<"Bearer ", cfg.AuthToken>>,
     ContentType |-> "application/json",
     XRequestID |-> requestID,
     body |-> providerReq,
     ctx |-> "background"]

\* The outcome of a handler run that ended before the provider was called
Ended(requestID, steps, resp, readLen, parsedLen) ==
    [requestID |-> requestID, steps |-> steps, resp |-> resp, call |-> NoCall,
     readLen |-> readLen, parsedLen |-> parsedLen]

\* HandleMessages from its entry to p.client.Do(req): the steps executed in
\* order, and either the error response written or the provider call made.
HandleMessagesBegin(cfg, r, in) ==
    LET requestID == IF in.xRequestID = "" THEN NewUUID(r) ELSE in.xRequestID
        hdr == [NoHeaders EXCEPT !.XRequestID = requestID]
        s1 == <<"requestID", "method">>
        s2 == s1 \o <<"size">>
        s3 == s2 \o <<"read">>
        s4 == s3 \o <<"parse">>
        s5 == s4 \o <<"validate">>
        s6 == s5 \o <<"convert", "marshal", "newRequest">>
        n == ReadLimited(in)
    IN  IF in.method # "POST"
        THEN Ended(requestID, s1,
                   HttpError(hdr, <<"Method not allowed">>, StatusMethodNotAllowed),
                   -1, -1)
        ELSE IF ValidateRequest(in.contentLength) # <<>>
        THEN Ended(requestID, s2,
                   HttpError(hdr, ValidateRequest(in.contentLength),
                             StatusRequestEntityTooLarge), -1, -1)
        ELSE IF ReadFails(in)
        THEN Ended(requestID, s3,
                   HttpError(hdr, <<"Failed to read body">>, StatusBadRequest),
                   n, -1)
        ELSE IF ~UnmarshalOK(in.body, n)
        THEN Ended(requestID, s4,
                   HttpError(hdr, <<"Invalid JSON: ", "syntax error">>,
                             StatusBadRequest), n, n)
        ELSE IF ValidateAnthropicRequest(in.body.doc) # <<>>
        THEN Ended(requestID, s5,
                   HttpError(hdr, ValidateAnthropicRequest(in.body.doc),
                             StatusBadRequest), n, n)
        ELSE IF ConvertAnthropicToProviderErr(in.body.doc) # <<>>
        THEN Ended(requestID, s5 \o <<"convert">>,
                   HttpError(hdr, <<"Failed to convert request: ">>
                                  \o ConvertAnthropicToProviderErr(in.body.doc),
                             StatusInternalServerError), n, n)
        ELSE IF ~URLParses(ProviderURL(cfg.BaseURL))
        THEN Ended(requestID, s6,
                   HttpError(hdr, <<"Failed to create request: ", "invalid URL">>,
                             StatusInternalServerError), n, n)
        ELSE [requestID |-> requestID, steps |-> s6 \o <<"dispatch">>,
              resp |-> NoResp,
              call |-> ProviderCall(cfg, requestID,
                                    ConvertAnthropicToProvider(in.body.doc)),
              readLen |-> n, parsedLen |-> n]

\* HandleMessagesEnd parsing the provider body before looking at the status
HandleMessagesEndParseFirst(cfg, requestID, out) ==
    LET hdr == [NoHeaders EXCEPT !.XRequestID = requestID]
        name == cfg.ProviderName
    IN  IF out.kind = "error"
        THEN [steps |-> <<>>,
              resp |-> HttpError(hdr, <<"Failed to call ", name, ": ", out.raw>>,
                                 StatusBadGateway)]
        ELSE IF out.kind = "readfail"
        THEN [steps |-> <<"respRead">>,
              resp |-> HttpError(hdr, <<"Failed to read ", name, " response">>,
                                 StatusBadGateway)]
        ELSE IF ~out.parseOK
        THEN [steps |-> <<"respRead", "respParse">>,
              resp |-> HttpError(hdr, <<"Failed to parse ", name, " response: ",
                                        "syntax error">>, StatusBadGateway)]
        ELSE IF out.status # StatusOK
        THEN [steps |-> <<"respRead", "respParse", "statusCheck">>,
              resp |-> HttpError(hdr, <<name, " error: ", out.raw>>, out.status)]
        ELSE IF ~out.parsed.ErrorIsNil
        THEN [steps |-> <<"respRead", "respParse", "statusCheck", "errorCheck">>,
              resp |-> HttpError(hdr, <<name, " returned error: ",
                                        out.parsed.Error>>, StatusBadGateway)]
        ELSE [steps |-> <<"respRead", "respParse", "statusCheck", "errorCheck",
                          "translate", "send">>,
              resp |-> JsonOK(hdr, [kind |-> "message",
                                    message |-> ConvertProviderToAnthropic(out.parsed)])]

\* the second half of HandleMessages handing the provider's parsed response
\* to the client as it is, without translating it
HandleMessagesEndUntranslated(cfg, requestID, out) ==
    LET hdr == [NoHeaders EXCEPT !.XRequestID = requestID]
        name == cfg.ProviderName
    IN  IF out.kind = "error"
        THEN [steps |-> <<>>,
              resp |-> HttpError(hdr, <<"Failed to call ", name, ": ", out.raw>>,
                                 StatusBadGateway)]
        ELSE IF out.kind = "readfail"
        THEN [steps |-> <<"respRead">>,
              resp |-> HttpError(hdr, <<"Failed to read ", name, " response">>,
                                 StatusBadGateway)]
        ELSE IF out.status # StatusOK
        THEN [steps |-> <<"respRead", "statusCheck">>,
              resp |-> HttpError(hdr, <<name, " error: ", out.raw>>, out.status)]
        ELSE IF ~out.parseOK
        THEN [steps |-> <<"respRead", "statusCheck", "respParse">>,
              resp |-> HttpError(hdr, <<"Failed to parse ", name, " response: ",
                                        "syntax error">>, StatusBadGateway)]
        ELSE IF ~out.parsed.ErrorIsNil
        THEN [steps |-> <<"respRead", "statusCheck", "respParse", "errorCheck">>,
              resp |-> HttpError(hdr, <<name, " returned error: ",
                                        out.parsed.Error>>, StatusBadGateway)]
        ELSE [steps |-> <<"respRead", "statusCheck", "respParse", "errorCheck",
                          "translate", "send">>,
              resp |-> JsonOK(hdr, [kind |-> "message", message |-> out.parsed])]

\* HandleMessagesEnd looking at the error field only when the provider sent
\* no choices
HandleMessagesEndErrorIfNoChoices(cfg, requestID, out) ==
    LET hdr == [NoHeaders EXCEPT !.XRequestID = requestID]
        name == cfg.ProviderName
    IN  IF out.kind = "error"
        THEN [steps |-> <<>>,
              resp |-> HttpError(hdr, <<"Failed to call ", name, ": ", out.raw>>,
                                 StatusBadGateway)]
        ELSE IF out.kind = "readfail"
        THEN [steps |-> <<"respRead">>,
              resp |-> HttpError(hdr, <<"Failed to read ", name, " response">>,
                                 StatusBadGateway)]
        ELSE IF out.status # StatusOK
        THEN [steps |-> <<"respRead", "statusCheck">>,
              resp |-> HttpError(hdr, <<name, " error: ", out.raw>>, out.status)]
        ELSE IF ~out.parseOK
        THEN [steps |-> <<"respRead", "statusCheck", "respParse">>,
              resp |-> HttpError(hdr, <<"Failed to parse ", name, " response: ",
                                        "syntax error">>, StatusBadGateway)]
        ELSE IF ~out.parsed.ErrorIsNil /\ out.parsed.Choices = <<>>
        THEN [steps |-> <<"respRead", "statusCheck", "respParse", "errorCheck">>,
              resp |-> HttpError(hdr, <<name, " returned error: ",
                                        out.parsed.Error>>, StatusBadGateway)]
        ELSE [steps |-> <<"respRead", "statusCheck", "respParse", "errorCheck",
                          "translate", "send">>,
              resp |-> JsonOK(hdr, [kind |-> "message",
                                    message |-> ConvertProviderToAnthropic(out.parsed)])]

\* HandleMessages from the return of p.client.Do(req) to its end.  out is what
\* the provider call produced: kind "error" (Do returned an error), "readfail"
\* (status line received, reading the body failed) or "response".
HandleMessagesEnd(cfg, requestID, out) ==
    LET hdr == [NoHeaders EXCEPT !.XRequestID = requestID]
        name == cfg.ProviderName
    IN  IF out.kind = "error"
        THEN [steps |-> <<>>,
              resp |-> HttpError(hdr, <<"Failed to call ", name, ": ", out.raw>>,
                                 StatusBadGateway)]
        ELSE IF out.kind = "readfail"
        THEN [steps |-> <<"respRead">>,
              resp |-> HttpError(hdr, <<"Failed to read ", name, " response">>,
                                 StatusBadGateway)]
        ELSE IF out.status # StatusOK
        THEN [steps |-> <<"respRead", "statusCheck">>,
              resp |-> HttpError(hdr, <<name, " error: ", out.raw>>, out.status)]
        ELSE IF ~out.parseOK
        THEN [steps |-> <<"respRead", "statusCheck", "respParse">>,
              resp |-> HttpError(hdr, <<"Failed to parse ", name, " response: ",
                                        "syntax error">>, StatusBadGateway)]
        ELSE IF ~out.parsed.ErrorIsNil
        THEN [steps |-> <<"respRead", "statusCheck", "respParse", "errorCheck">>,
              resp |-> HttpError(hdr, <<name, " returned error: ",
                                        out.parsed.Error>>, StatusBadGateway)]
        ELSE [steps |-> <<"respRead", "statusCheck", "respParse", "errorCheck",
                          "translate", "send">>,
              resp |-> JsonOK(hdr, [kind |-> "message",
                                    message |-> ConvertProviderToAnthropic(out.parsed)])]

\* a health endpoint that asks for the proxy credential when one is required
HandleHealthGated(cfg) ==
    IF cfg.AuthRequired /\ cfg.ProxyAuthToken # <<>>
    THEN HttpError(NoHeaders, <<"Authorization header required">>,
                   StatusUnauthorized)
    ELSE JsonOK(NoHeaders, [kind |-> "health", status |-> "ok",
                            provider |-> cfg.ProviderName])

HandleHealth(cfg) ==
    JsonOK(NoHeaders, [kind |-> "health", status |-> "ok",
                       provider |-> cfg.ProviderName])

-----------------------------------------------------------------------------
(* Inputs: configurations, inbound requests, provider outcomes *)

TokenT == <<"s", "3", "c">>
TokenX == <<"s", "3", "x">>

URLPlain == <<"h", "t", "t", "p", ":", "/", "/", "x", "/", "v", "1">>

BaseURLs == {URLPlain, URLPlain \o <<"/">>, URLPlain \o <<"\n">>}

Configs ==
    {[ProviderName |-> "X.AI", BaseURL |-> u, Port |-> "9001",
      AuthToken |-> "xai-key", AuthRequired |-> a, ProxyAuthToken |-> t] :
        u \in BaseURLs, a \in BOOLEAN, t \in {<<>>, TokenT}}
    \cup {[ProviderName |-> "Z.AI", BaseURL |-> URLPlain, Port |-> "9002",
           AuthToken |-> "zai-key", AuthRequired |-> TRUE,
           ProxyAuthToken |-> TokenT]}

\* the two configurations of the concurrent specification: proxy
\* authentication on with a credential, and off without one
ConcConfigs ==
    {c \in Configs : /\ c.ProviderName = "X.AI"
                     /\ c.BaseURL = URLPlain
                     /\ c.AuthRequired <=> c.ProxyAuthToken # <<>>}

\* Authorization header values; <<>> is the absent header
AuthHeaders ==
    {<<>>,
     Bearer \o <<" ">> \o TokenT,
     Bearer \o <<" ">> \o TokenX,
     <<"b", "e", "a", "r", "e", "r", " ">> \o TokenT,
     <<"B", "a", "s", "i", "c", " ">> \o TokenT,
     Bearer \o TokenT,
     Bearer,
     Bearer \o <<" ", " ">> \o TokenT,
     Bearer \o <<" ">> \o TokenT \o <<" ">>,
     <<" ">> \o Bearer \o <<" ">> \o TokenT}

UserHi == AnthropicMessage("user", ContentString("hi"))

Msgs(n) == [i \in 1..n |-> UserHi]

\* the request of the end-to-end example: two text blocks
DocExample ==
    AnthropicRequest("m",
        <<AnthropicMessage("user",
              ContentList(<<TextBlock("hi"), TextBlock("there")>>))>>,
        0, 0, 0, ContentNil)

\* every combination of boundary values of the validated fields
BoundaryDocs ==
    {AnthropicRequest(m, Msgs(n), mt, te, tp, ContentNil) :
        m \in {"", "m"}, n \in {0, 1, MaxMessages, MaxMessages + 1},
        mt \in {-1, 0, MaxTokens, MaxTokens + 1},
        te \in {-1, 0, 200, 201}, tp \in {-1, 0, 100, 101}}

ContentDocs ==
    {DocExample,
     AnthropicRequest("m", <<UserHi>>, 16, 70, 90, ContentString("S")),
     AnthropicRequest("m", <<UserHi>>, 16, 70, 90, ContentString("")),
     AnthropicRequest("m",
        <<AnthropicMessage("user",
              ContentList(<<TextBlock("a"), OtherBlock, NonMapElement,
                            TextBlock("b")>>)),
          AnthropicMessage("assistant", ContentOther("42")),
          AnthropicMessage("tool", ContentNil),
          AnthropicMessage("user", ContentOther("map[type:image]"))>>,
        16, 70, 90, ContentList(<<OtherBlock>>))}

SmallLen == 40

Body(len, wellFormed, jsonLen, doc) ==
    [len |-> len, wellFormed |-> wellFormed, jsonLen |-> jsonLen, doc |-> doc]

\* <<declared Content-Length, body>> pairs around the size ceiling
SizedBodies ==
    {<<SmallLen, Body(SmallLen, TRUE, SmallLen, DocExample)>>,
     <<MaxRequestBodySize,
       Body(MaxRequestBodySize, TRUE, MaxRequestBodySize, DocExample)>>,
     <<MaxRequestBodySize + 1,
       Body(MaxRequestBodySize + 1, TRUE, MaxRequestBodySize + 1, DocExample)>>,
     <<-1, Body(SmallLen, TRUE, SmallLen, DocExample)>>,
     <<-1, Body(MaxRequestBodySize, TRUE, MaxRequestBodySize, DocExample)>>,
     <<-1, Body(MaxRequestBodySize + 1, TRUE, MaxRequestBodySize + 1, DocExample)>>,
     <<-1, Body(MaxRequestBodySize + 1, TRUE, SmallLen, DocExample)>>,
     <<SmallLen, Body(MaxRequestBodySize + 1, TRUE, SmallLen, DocExample)>>,
     <<SmallLen + 10, Body(SmallLen, TRUE, SmallLen, DocExample)>>,
     <<MaxRequestBodySize + 1, Body(SmallLen, TRUE, SmallLen, DocExample)>>,
     <<SmallLen, Body(SmallLen, FALSE, SmallLen, NoReq)>>,
     <<0, Body(0, FALSE, 0, NoReq)>>}

Request(path, method, auth, rid, cl, body) ==
    [path |-> path, method |-> method, authorization |-> auth,
     xRequestID |-> rid, contentLength |-> cl, body |-> body]

\* header and size variations around the example document
HeaderInputs ==
    {Request("/v1/messages", m, a, rid, sb[1], sb[2]) :
        m \in {"POST", "GET"}, a \in AuthHeaders, rid \in {"", "rid-7"},
        sb \in SizedBodies}

\* document variations under good headers
DocInputs ==
    {Request("/v1/messages", "POST", Bearer \o <<" ">> \o TokenT, "",
             SmallLen, Body(SmallLen, TRUE, SmallLen, d)) :
        d \in BoundaryDocs \cup ContentDocs}

HealthInputs ==
    {Request("/health", m, a, "", 0, Body(0, FALSE, 0, NoReq)) :
        m \in {"GET", "POST"}, a \in {<<>>, Bearer \o <<" ">> \o TokenX}}

Inputs == HeaderInputs \cup DocInputs \cup HealthInputs

\* the few inputs of the concurrent specification
ConcInputs ==
    {Request("/v1/messages", "POST", a, rid, SmallLen,
             Body(SmallLen, TRUE, SmallLen, DocExample)) :
        a \in {<<>>, Bearer \o <<" ">> \o TokenT, Bearer \o <<" ">> \o TokenX,
               <<"B", "a", "s", "i", "c", " ">> \o TokenT},
        rid \in {""}}
    \cup {Request("/v1/messages", "GET", Bearer \o <<" ">> \o TokenT, "",
                  SmallLen, Body(SmallLen, TRUE, SmallLen, DocExample)),
          Request("/v1/messages", "POST", Bearer \o <<" ">> \o TokenT, "",
                  SmallLen, Body(SmallLen, FALSE, SmallLen, NoReq))}

Choice(content, finish) == [Content |-> content, FinishReason |-> finish]

ProviderResponse(id, model, choices, pt, ct, errIsNil, err) ==
    [ID |-> id, Model |-> model, Choices |-> choices,
     Usage |-> [PromptTokens |-> pt, CompletionTokens |-> ct],
     ErrorIsNil |-> errIsNil, Error |-> err]

ProviderResponses ==
    {ProviderResponse("abc", "m", <<Choice("hello", "stop")>>, 3, 1, TRUE, ""),
     ProviderResponse("abc", "m", <<Choice("hel", "length")>>, 3, 9, TRUE, ""),
     ProviderResponse("abc", "m",
         <<Choice("x", "content_filter"), Choice("y", "stop")>>, 3, 1, TRUE, ""),
     ProviderResponse("abc", "m", <<>>, 3, 0, TRUE, ""),
     ProviderResponse("abc", "m", <<Choice("hello", "stop")>>, 3, 1, FALSE, "boom")}

NoParse == [kind |-> "none"]

Outcome(kind, status, raw, parseOK, parsed) ==
    [kind |-> kind, status |-> status, raw |-> raw, parseOK |-> parseOK,
     parsed |-> parsed]

\* the limits NewProxy puts on the outbound client, in seconds: the whole
\* call with the reading of the body, and the wait for the response headers
ClientTimeout == 30
ResponseHeaderTimeout == 10

\* the outcome o with its timing, in seconds after the call was made: the
\* response headers arrived at h (for an error: the call gave up at h) and
\* the handler had the whole outcome in hand at t
After(h, t, o) ==
    [kind |-> o.kind, status |-> o.status, raw |-> o.raw,
     parseOK |-> o.parseOK, parsed |-> o.parsed, headersAt |-> h, took |-> t]

\* the timings of an answered call the client's limits let through: a quick
\* answer, and headers inside ResponseHeaderTimeout followed by a body that
\* is complete inside ClientTimeout
AnswerTimings ==
    {tm \in {<<1, 2>>, <<9, 20>>} :
        tm[1] <= ResponseHeaderTimeout /\ tm[2] <= ClientTimeout}

\* p.client.Do returned an error: unreachable, or one of the client's timeouts
ErrorOutcomes ==
    {After(1, 1, Outcome("error", 0, "connection refused", FALSE, NoParse)),
     After(ClientTimeout, ClientTimeout,
           Outcome("error", 0, "Client.Timeout exceeded", FALSE, NoParse))}

\* a response whose status was received
AnswerShapes ==
    {Outcome("readfail", st, "{\"err", FALSE, NoParse) : st \in {200, 500}}
    \cup {Outcome("response", st, "{\"error\":\"boom\"}", FALSE, NoParse) :
            st \in {201, 401, 500}}
    \cup {Outcome("response", 200, "not json", FALSE, NoParse)}
    \cup {Outcome("response", 200, "json", TRUE, p) : p \in ProviderResponses}

AnswerOutcomes ==
    {After(tm[1], tm[2], o) : tm \in AnswerTimings, o \in AnswerShapes}

\* the few outcomes of the concurrent specification
ConcErrors ==
    {After(ClientTimeout, ClientTimeout,
           Outcome("error", 0, "Client.Timeout exceeded", FALSE, NoParse))}

ConcAnswers ==
    {After(1, 2, o) : o \in
        {Outcome("response", 500, "{\"error\":\"boom\"}", FALSE, NoParse),
         Outcome("response", 200, "json", TRUE,
             ProviderResponse("abc", "m", <<Choice("hello", "stop")>>, 3, 1, TRUE, ""))}}

-----------------------------------------------------------------------------
(* State *)

Slots == 1..NReq

NoInput == [kind |-> "none"]
NoOutcome == [kind |-> "none"]

IdleReq ==
    [pc |-> "idle", in |-> NoInput, requestID |-> "", steps |-> <<>>,
     call |-> NoCall, callState |-> "none", backend |-> NoOutcome,
     resp |-> NoResp, clientGone |-> FALSE, readLen |-> -1, parsedLen |-> -1,
     calls |-> 0, writes |-> <<>>, received |-> FALSE]

\* the statuses a handler run wrote to the client: http.Error and
\* w.WriteHeader are each called once on the branch that answers
Written(resp) == IF resp = NoResp THEN <<>> ELSE <<resp.status>>

ServerUp ==
    [phase |-> "running", shutdownReturned |-> FALSE, graceExpired |-> FALSE]

\* no converter call under way outside a handler
NoConv == [op |-> "none", arg |-> NoReq, done |-> FALSE, out |-> NoReq]

Init ==
    /\ config \in Configs
    /\ server = ServerUp
    /\ reqs = [r \in Slots |-> IdleReq]
    /\ conv = NoConv

\* a request the server has accepted and whose handler has not returned
InFlight(r) == reqs[r].pc = "dispatched"

-----------------------------------------------------------------------------
(* Actions *)

\* A request for /v1/messages arrives and runs through the mounted handler
\* (the auth gate when mounted, then HandleMessages) up to the provider call.
ServeMessages(r, ins) ==
    /\ server.phase = "running"
    /\ reqs[r].pc = "idle"
    /\ \E in \in ins :
        /\ in.path = "/v1/messages"
        /\ LET mounted == GateMounted(config, in.path)
               gate == AuthMiddleware(config, in.path, in.authorization)
               pre == IF mounted THEN <<"auth">> ELSE <<>>
               h == HandleMessagesBegin(config, r, in)
           IN  reqs' = [reqs EXCEPT ![r] =
                 IF mounted /\ ~gate.pass
                 THEN [IdleReq EXCEPT !.pc = "sent", !.in = in, !.steps = pre,
                                      !.resp = gate.resp,
                                      !.writes = Written(gate.resp),
                                      !.received = TRUE]
                 ELSE [IdleReq EXCEPT
                         !.pc = IF h.call = NoCall THEN "sent" ELSE "dispatched",
                         !.in = in, !.requestID = h.requestID,
                         !.steps = pre \o h.steps, !.call = h.call,
                         !.callState = IF h.call = NoCall THEN "none"
                                       ELSE "outstanding",
                         !.resp = h.resp, !.readLen = h.readLen,
                         !.parsedLen = h.parsedLen,
                         !.calls = IF h.call = NoCall THEN 0 ELSE 1,
                         !.writes = Written(h.resp),
                         !.received = h.call = NoCall]]
    /\ UNCHANGED <<config, server, conv>>

\* A request for /health arrives: main mounts HandleHealth without the gate
ServeHealth(r, ins) ==
    /\ server.phase = "running"
    /\ reqs[r].pc = "idle"
    /\ \E in \in ins :
        /\ in.path = "/health"
        /\ reqs' = [reqs EXCEPT ![r] =
              [IdleReq EXCEPT !.pc = "sent", !.in = in, !.steps = <<"health">>,
                              !.resp = HandleHealth(config),
                              !.writes = Written(HandleHealth(config)),
                              !.received = TRUE]]
    /\ UNCHANGED <<config, server, conv>>

\* main gives the server a WriteTimeout, in seconds: net/http sets the
\* connection's write deadline that long after it has read the request's
\* headers, and what the handler writes after the deadline is not sent
WriteTimeout == 15

\* the answer the handler of r writes once the provider call has returned out
\* reaches the client: the client is still there and the write deadline of
\* the connection has not passed
ClientReceives(r, out) == ~reqs[r].clientGone /\ out.took < WriteTimeout

\* a handler that calls the provider a second time when the first call failed
FinishRetry(r, out, state) ==
    LET e == HandleMessagesEnd(config, reqs[r].requestID, out)
    IN  IF out.kind = "error" /\ reqs[r].calls < 2
        THEN reqs' = [reqs EXCEPT ![r].backend = out,
                                  ![r].calls = reqs[r].calls + 1]
        ELSE reqs' = [reqs EXCEPT ![r].pc = "sent", ![r].backend = out,
                                  ![r].callState = state,
                                  ![r].steps = reqs[r].steps \o e.steps,
                                  ![r].resp = e.resp,
                                  ![r].writes = reqs[r].writes \o Written(e.resp),
                                  ![r].received = ClientReceives(r, out)]

\* a handler that keeps the request ID in a field shared by all requests:
\* finishing one request overwrites the ID of the others still in flight
FinishSharedRequestID(r, out, state) ==
    LET e == HandleMessagesEnd(config, reqs[r].requestID, out)
    IN  reqs' = [q \in Slots |->
                    IF q = r
                    THEN [reqs[q] EXCEPT !.pc = "sent", !.backend = out,
                                         !.callState = state,
                                         !.steps = @ \o e.steps,
                                         !.resp = e.resp,
                                         !.writes = @ \o Written(e.resp),
                                         !.received = ClientReceives(r, out)]
                    ELSE IF reqs[q].pc = "dispatched"
                    THEN [reqs[q] EXCEPT !.requestID = reqs[r].requestID]
                    ELSE reqs[q]]

\* a handler whose failed provider call also fails every other outstanding
\* call (a client whose failure is shared between the requests)
FinishSharedFailure(r, out, state) ==
    LET hit(q) == \/ q = r
                  \/ out.kind = "error" /\ reqs[q].callState = "outstanding"
        e(q) == HandleMessagesEnd(config, reqs[q].requestID, out)
    IN  reqs' = [q \in Slots |->
                    IF hit(q)
                    THEN [reqs[q] EXCEPT !.pc = "sent", !.backend = out,
                                         !.callState = state,
                                         !.steps = @ \o e(q).steps,
                                         !.resp = e(q).resp,
                                         !.writes = @ \o Written(e(q).resp),
                                         !.received = ClientReceives(q, out)]
                    ELSE reqs[q]]

\* the rest of HandleMessages once p.client.Do has returned out: the steps it
\* runs are appended, its one answer is written and the handler returns
Finish(r, out, state) ==
    LET e == HandleMessagesEnd(config, reqs[r].requestID, out)
    IN  reqs' = [reqs EXCEPT ![r].pc = "sent", ![r].backend = out,
                             ![r].callState = state,
                             ![r].steps = reqs[r].steps \o e.steps,
                             ![r].resp = e.resp,
                             ![r].writes = reqs[r].writes \o Written(e.resp),
                             ![r].received = ClientReceives(r, out)]

\* p.client.Do returns an error and the handler answers 502
BackendError(r, outs) ==
    /\ server.phase # "exited"
    /\ reqs[r].pc = "dispatched"
    /\ reqs[r].callState = "outstanding"
    /\ \E out \in outs : Finish(r, out, "failed")
    /\ UNCHANGED <<config, server, conv>>

\* p.client.Do returns a response and the handler runs to its end
BackendAnswer(r, outs) ==
    /\ server.phase # "exited"
    /\ reqs[r].pc = "dispatched"
    /\ reqs[r].callState = "outstanding"
    /\ \E out \in outs : Finish(r, out, "completed")
    /\ UNCHANGED <<config, server, conv>>

\* The client of an in-flight request goes away: the server cancels the
\* inbound request's context.  A provider call made under that context is
\* aborted; one made under another context is not touched.
ClientDisconnect(r) ==
    /\ server.phase # "exited"
    /\ reqs[r].pc = "dispatched"
    /\ ~reqs[r].clientGone
    /\ reqs' = [reqs EXCEPT ![r].clientGone = TRUE,
                            ![r].callState =
                                IF reqs[r].call.ctx = "request" THEN "aborted"
                                ELSE reqs[r].callState]
    /\ UNCHANGED <<config, server, conv>>

\* SIGINT/SIGTERM: the signal goroutine calls server.Shutdown(ctx) with a 5 s
\* context; the listener closes and ListenAndServe returns ErrServerClosed
Signal ==
    /\ server.phase = "running"
    /\ server' = [server EXCEPT !.phase = "shutting"]
    /\ UNCHANGED <<config, reqs, conv>>

\* the 5 s context of Shutdown expires
GraceExpire ==
    /\ server.phase = "shutting"
    /\ ~server.shutdownReturned
    /\ ~server.graceExpired
    /\ server' = [server EXCEPT !.graceExpired = TRUE]
    /\ UNCHANGED <<config, reqs, conv>>

\* server.Shutdown returns: no request in flight, or the context expired
ShutdownReturn ==
    /\ server.phase = "shutting"
    /\ ~server.shutdownReturned
    /\ (\A r \in Slots : ~InFlight(r)) \/ server.graceExpired
    /\ server' = [server EXCEPT !.shutdownReturned = TRUE]
    /\ UNCHANGED <<config, reqs, conv>>

\* main, back from ListenAndServe, logs and returns: the process ends
MainExit ==
    /\ server.phase = "shutting"
    /\ server' = [server EXCEPT !.phase = "exited"]
    /\ UNCHANGED <<config, reqs, conv>>

ServerStep == Signal \/ GraceExpire \/ ShutdownReturn \/ MainExit

\* one request at a time, every input
Next ==
    \/ ServeMessages(1, Inputs)
    \/ ServeHealth(1, Inputs)
    \/ BackendError(1, ErrorOutcomes)
    \/ BackendAnswer(1, AnswerOutcomes)
    \/ ClientDisconnect(1)
    \/ Signal
    \/ GraceExpire
    \/ ShutdownReturn
    \/ MainExit

Spec == Init /\ [][Next]_vars

\* NReq concurrent requests, few inputs
NextConc ==
    \/ \E r \in Slots : ServeMessages(r, ConcInputs)
    \/ \E r \in Slots : BackendError(r, ConcErrors)
    \/ \E r \in Slots : BackendAnswer(r, ConcAnswers)
    \/ \E r \in Slots : ClientDisconnect(r)
    \/ Signal
    \/ GraceExpire
    \/ ShutdownReturn
    \/ MainExit

InitConc ==
    /\ config \in ConcConfigs
    /\ server = ServerUp
    /\ reqs = [r \in Slots |-> IdleReq]
    /\ conv = NoConv

SpecConc == InitConc /\ [][NextConc]_vars

-----------------------------------------------------------------------------
(* The converters called on their own, on arguments of every shape *)

\* longest content list, longest message list and longest choices list
MaxBlocks == 3
MaxMsgs == 2
MaxChoices == 2

\* all sequences over S of length at most n
SeqsUpTo(S, n) == UNION {[1..k -> S] : k \in 0..n}

\* elements a decoded content list can hold
BlockValues ==
    {TextBlock("a"), TextBlock("b"), TextBlock(""), OtherBlock, NonMapElement}

\* decoded content values: strings, lists, another JSON value, nil
ContentValues ==
    {ContentString(t) : t \in {"", "a", "a\nb", "<nil>"}}
    \cup {ContentList(bs) : bs \in SeqsUpTo(BlockValues, MaxBlocks)}
    \cup {ContentOther("42"), ContentOther("map[type:text]"), ContentNil}

\* values of the system field
SystemValues ==
    {ContentNil, ContentString("S"), ContentString(""), ContentList(<<>>),
     ContentList(<<OtherBlock, NonMapElement>>), ContentList(<<TextBlock("")>>),
     ContentList(<<TextBlock("a"), OtherBlock, TextBlock("b")>>),
     ContentOther("42")}

\* source messages; the role is any string the client sends
MessageValues ==
    {AnthropicMessage(role, c) :
        role \in {"user", "assistant", "system"},
        c \in {ContentString("hi"), ContentString(""), ContentNil,
               ContentOther("42"),
               ContentList(<<TextBlock("a"), OtherBlock, TextBlock("b")>>)}}

\* parsed requests, validated or not
RequestValues ==
    {AnthropicRequest(sc[1], ms, sc[2], sc[3], sc[4], sys) :
        sc \in {<<"m", 16, 70, 90>>, <<"", 0, 0, 0>>},
        ms \in SeqsUpTo(MessageValues, MaxMsgs), sys \in SystemValues}

ChoiceValues ==
    {Choice(c, f) : c \in {"hello", ""},
                    f \in {"stop", "length", "content_filter", "tool_calls",
                           "", "STOP"}}

\* parsed provider responses
ResponseValues ==
    {ProviderResponse(id, m, cs, u[1], u[2], TRUE, "") :
        id \in {"abc", ""}, m \in {"m", "grok-2"},
        cs \in SeqsUpTo(ChoiceValues, MaxChoices),
        u \in {<<3, 1>>, <<0, 0>>}}

Call(op, arg) == [op |-> op, arg |-> arg, done |-> FALSE, out |-> NoReq]

InitConv ==
    /\ config \in ConcConfigs
    /\ server = ServerUp
    /\ reqs = [r \in Slots |-> IdleReq]
    /\ conv \in {Call("extractContentString", c) : c \in ContentValues}
          \cup {Call("ConvertAnthropicToProvider", q) : q \in RequestValues}
          \cup {Call("ConvertProviderToAnthropic", p) : p \in ResponseValues}
          \cup {Call("handleMessages", q) : q \in RequestValues}

\* extractContentString(content) returns
ExtractReturns ==
    /\ conv.op = "extractContentString" /\ ~conv.done
    /\ conv' = [conv EXCEPT !.done = TRUE,
                            !.out = [str |-> extractContentString(conv.arg)]]
    /\ UNCHANGED <<config, server, reqs>>

\* ConvertAnthropicToProvider(anthropicReq) returns
ToProviderReturns ==
    /\ conv.op = "ConvertAnthropicToProvider" /\ ~conv.done
    /\ conv' = [conv EXCEPT !.done = TRUE,
                            !.out = ConvertAnthropicToProvider(conv.arg)]
    /\ UNCHANGED <<config, server, reqs>>

\* ConvertProviderToAnthropic(providerResp) returns
ToAnthropicReturns ==
    /\ conv.op = "ConvertProviderToAnthropic" /\ ~conv.done
    /\ conv' = [conv EXCEPT !.done = TRUE,
                            !.out = ConvertProviderToAnthropic(conv.arg)]
    /\ UNCHANGED <<config, server, reqs>>

\* handleMessages of a binary has built its provider request and called
HandleMessagesCalls ==
    /\ conv.op = "handleMessages" /\ ~conv.done
    /\ conv' = [conv EXCEPT !.done = TRUE, !.out = handleMessages(conv.arg)]
    /\ UNCHANGED <<config, server, reqs>>

NextConv ==
    \/ ExtractReturns
    \/ ToProviderReturns
    \/ ToAnthropicReturns
    \/ HandleMessagesCalls

SpecConv == InitConv /\ [][NextConv]_vars

-----------------------------------------------------------------------------
(* Vocabulary of the properties *)

\* request r is a /v1/messages request the server has accepted
OnMessages(r) == reqs[r].pc # "idle" /\ reqs[r].in.path = "/v1/messages"

\* HandleMessages was entered for r
HandlerRan(r) == \E i \in 1..Len(reqs[r].steps) : reqs[r].steps[i] = "requestID"

\* the provider was called for r
BackendCalled(r) == reqs[r].call # NoCall

\* the header is exactly "Bearer <token>"
ExactBearer(in, token) == in.authorization = Bearer \o <<" ">> \o token

\* proxy authentication is in force: required, with a credential configured
AuthEnabled == config.AuthRequired /\ config.ProxyAuthToken # <<>>

\* the schema rules of section 4.4, stated on the parsed request
SchemaOK(doc) ==
    /\ doc.Model # ""
    /\ Len(doc.Messages) >= 1 /\ Len(doc.Messages) <= 100
    /\ doc.MaxTokens >= 0 /\ doc.MaxTokens <= 100000
    /\ doc.Temperature >= 0 /\ doc.Temperature <= 200
    /\ doc.TopP >= 0 /\ doc.TopP <= 100

\* the steps of the pipeline up to the provider call, in their order
Pipeline ==
    <<"requestID", "method", "size", "read", "parse", "validate",
      "convert", "marshal", "newRequest", "dispatch">>

GatePrefix == IF config.AuthRequired THEN <<"auth">> ELSE <<>>

\* the steps of a request that went as far as step number k of the pipeline
StepsTo(k) == GatePrefix \o SubSeq(Pipeline, 1, k)

Last(s) == s[Len(s)]

\* the first check, in pipeline order, that the request fails
FirstFailure(in) ==
    IF AuthEnabled /\ ~ExactBearer(in, config.ProxyAuthToken) THEN "auth"
    ELSE IF in.method # "POST" THEN "method"
    ELSE IF in.contentLength > 10 * 1024 * 1024 THEN "size"
    ELSE IF ReadFails(in) \/ ~UnmarshalOK(in.body, ReadLimited(in)) THEN "body"
    ELSE IF ~SchemaOK(in.body.doc) THEN "validate"
    ELSE "none"

-----------------------------------------------------------------------------
(* C1: for every request to /v1/messages the provider is called only after,  *)
(* in this order, the auth gate (when mounted) accepted it, the method was   *)
(* POST, the declared size passed the ceiling, the body parsed and the       *)
(* schema validation passed; a request failing one of these steps gets that  *)
(* step's status, and no later step, in particular no provider call, runs.   *)
C1_OrderedPipeline ==
    \A r \in Slots : OnMessages(r) =>
        LET q == reqs[r]
            f == FirstFailure(q.in)
        IN  /\ f = "auth" =>
                /\ q.steps = <<"auth">>
                /\ q.resp.status = 401 /\ ~BackendCalled(r) /\ q.pc = "sent"
            /\ f = "method" =>
                /\ q.steps = StepsTo(2)
                /\ q.resp.status = 405 /\ ~BackendCalled(r) /\ q.pc = "sent"
            /\ f = "size" =>
                /\ q.steps = StepsTo(3)
                /\ q.resp.status = 413 /\ ~BackendCalled(r) /\ q.pc = "sent"
            /\ f = "body" =>
                /\ q.steps \in {StepsTo(4), StepsTo(5)}
                /\ q.resp.status = 400 /\ ~BackendCalled(r) /\ q.pc = "sent"
            /\ f = "validate" =>
                /\ q.steps = StepsTo(6)
                /\ q.resp.status = 400 /\ ~BackendCalled(r) /\ q.pc = "sent"
            /\ BackendCalled(r) =>
                /\ f = "none"
                /\ Len(q.steps) >= Len(StepsTo(10))
                /\ SubSeq(q.steps, 1, Len(StepsTo(10))) = StepsTo(10)

\* a request that passed the mounted gate and every check, provider called
C1_Witness ==
    \E r \in Slots :
        /\ OnMessages(r) /\ AuthEnabled
        /\ reqs[r].callState = "outstanding"
        /\ reqs[r].steps = StepsTo(10)

-----------------------------------------------------------------------------
(* C2: with auth-required on and a non-empty proxy credential T, a request   *)
(* to /v1/messages reaches the message handler if and only if its            *)
(* Authorization header is exactly "Bearer T"; otherwise it is answered 401  *)
(* and neither the handler nor the provider is invoked.                      *)
C2_ExactBearerOnly ==
    \A r \in Slots : (OnMessages(r) /\ AuthEnabled) =>
        /\ HandlerRan(r) <=> ExactBearer(reqs[r].in, config.ProxyAuthToken)
        /\ ~ExactBearer(reqs[r].in, config.ProxyAuthToken) =>
              /\ reqs[r].resp.status = 401
              /\ reqs[r].pc = "sent"
              /\ ~HandlerRan(r)
              /\ ~BackendCalled(r)

\* a request carrying exactly "Bearer T" that went through to the provider
C2_Witness ==
    \E r \in Slots :
        /\ OnMessages(r) /\ AuthEnabled
        /\ ExactBearer(reqs[r].in, config.ProxyAuthToken)
        /\ HandlerRan(r) /\ BackendCalled(r)
        /\ reqs[r].pc = "sent"

-----------------------------------------------------------------------------
GateRejected(r) ==
    OnMessages(r) /\ reqs[r].steps = <<"auth">> /\ reqs[r].pc = "sent"

(* C3: every request the auth gate rejects receives the same 401 response:   *)
(* status and body are identical whatever the cause of the rejection.        *)
C3_UniformRejection ==
    \A r1, r2 \in Slots : (GateRejected(r1) /\ GateRejected(r2)) =>
        /\ reqs[r1].resp.status = reqs[r2].resp.status
        /\ reqs[r1].resp.msg = reqs[r2].resp.msg

-----------------------------------------------------------------------------
(* C4: every POST to /v1/messages that reaches the handler with a body       *)
(* larger than the 10 MiB ceiling is answered 413 and none of its bytes is   *)
(* handed to the JSON parser, whatever Content-Length it declares.           *)
C4_OversizedAlways413 ==
    \A r \in Slots :
        (/\ OnMessages(r) /\ HandlerRan(r)
         /\ reqs[r].in.method = "POST"
         /\ reqs[r].in.body.len > 10 * 1024 * 1024) =>
            /\ reqs[r].resp.status = 413
            /\ reqs[r].parsedLen = -1

-----------------------------------------------------------------------------
ReachedValidation(r) ==
    \E i \in 1..Len(reqs[r].steps) : reqs[r].steps[i] = "validate"

PassedValidation(r) ==
    \E i \in 1..Len(reqs[r].steps) : reqs[r].steps[i] = "convert"

(* C5: a parsed request passes ValidateAnthropicRequest if and only if model *)
(* is non-empty, 1 <= len(messages) <= 100, 0 <= max_tokens <= 100000,       *)
(* 0 <= temperature <= 2 and 0 <= top_p <= 1 (bounds inclusive); a rejected  *)
(* request is answered 400 and the provider is not called.                   *)
C5_SchemaBounds ==
    \A r \in Slots : (OnMessages(r) /\ ReachedValidation(r)) =>
        /\ PassedValidation(r) <=> SchemaOK(reqs[r].in.body.doc)
        /\ ~SchemaOK(reqs[r].in.body.doc) =>
              /\ reqs[r].resp.status = 400
              /\ Last(reqs[r].steps) = "validate"
              /\ ~BackendCalled(r)

\* the inclusive upper bounds all at once: accepted and sent to the provider
C5_Witness ==
    \E r \in Slots :
        /\ OnMessages(r) /\ BackendCalled(r)
        /\ Len(reqs[r].in.body.doc.Messages) = 100
        /\ reqs[r].in.body.doc.MaxTokens = 100000
        /\ reqs[r].in.body.doc.Temperature = 200
        /\ reqs[r].in.body.doc.TopP = 100

-----------------------------------------------------------------------------
(* C6: after a shutdown signal the process does not terminate while a        *)
(* request is in flight, unless the grace period has expired.                *)
C6_NoAbandonedRequest ==
    server.phase = "exited" =>
        \/ \A r \in Slots : ~InFlight(r)
        \/ server.graceExpired

-----------------------------------------------------------------------------
(* C7: when the client of a request disconnects while the request's provider *)
(* call is outstanding, that call is aborted: it neither completes nor runs  *)
(* to its timeout.                                                           *)
C7_DisconnectAborts ==
    \A r \in Slots :
        reqs[r].clientGone => reqs[r].callState \in {"outstanding", "aborted"}

-----------------------------------------------------------------------------
(* C8: every response to a request on /v1/messages carries an X-Request-ID   *)
(* header: the inbound one when the request had one, a generated one if not. *)
C8_RequestIDOnEveryResponse ==
    \A r \in Slots : (OnMessages(r) /\ reqs[r].pc = "sent") =>
        /\ reqs[r].resp.XRequestID # ""
        /\ reqs[r].in.xRequestID # "" =>
              reqs[r].resp.XRequestID = reqs[r].in.xRequestID

-----------------------------------------------------------------------------
(* C9 as stated: a 401 on /v1/messages is produced only when proxy           *)
(* authentication is enabled and the request failed the credential check.    *)
C9_401OnlyFromGate ==
    \A r \in Slots : (OnMessages(r) /\ reqs[r].resp.status = 401) =>
        AuthEnabled /\ ~ExactBearer(reqs[r].in, config.ProxyAuthToken)

(* C9 amended: a 401 on /v1/messages comes either from the auth gate, which  *)
(* needs proxy authentication enabled and a failed credential check and then *)
(* calls no provider, or from the provider itself, whose 401 the handler     *)
(* passes through.                                                           *)
C9_401FromGateOrProvider ==
    \A r \in Slots : (OnMessages(r) /\ reqs[r].resp.status = 401) =>
        \/ /\ AuthEnabled
           /\ ~ExactBearer(reqs[r].in, config.ProxyAuthToken)
           /\ ~BackendCalled(r)
        \/ /\ reqs[r].backend.kind = "response"
           /\ reqs[r].backend.status = 401

\* auth-required off and still a 401: the provider's
C9_Witness ==
    \E r \in Slots :
        /\ OnMessages(r) /\ ~config.AuthRequired
        /\ reqs[r].resp.status = 401

-----------------------------------------------------------------------------
AnsweredNon200(r) ==
    /\ OnMessages(r) /\ reqs[r].pc = "sent"
    /\ reqs[r].backend.kind \in {"response", "readfail"}
    /\ reqs[r].backend.status # 200

InternalErrors ==
    {"Failed to convert request: ", "Failed to marshal request: ",
     "Failed to create request: "}

Upstream502OrOwn(r) ==
    /\ reqs[r].resp.status \in {502, reqs[r].backend.status}
    /\ config.ProviderName \in Range(reqs[r].resp.msg)
    /\ Range(reqs[r].resp.msg) \cap InternalErrors = {}
    /\ reqs[r].resp.payload = NoPayload
    /\ \A i \in 1..Len(reqs[r].steps) :
          reqs[r].steps[i] \notin {"respParse", "translate"}

-----------------------------------------------------------------------------
\* how many times step appears in the step log of r
Count(steps, step) == Cardinality({i \in 1..Len(steps) : steps[i] = step})

\* r was answered with an error
Failed(r) == reqs[r].pc = "sent" /\ reqs[r].resp.status # StatusOK

(* C11: for every request at most one provider call is made and exactly one  *)
(* response status is written: a request whose handler returned has one      *)
(* status written, the one of its answer; a failed request ran no step after *)
(* the failing one (no dispatch when it failed before the call, no           *)
(* translate or send when it failed after it); and once the answer is        *)
(* written nothing of the request changes again: no retry, no second write,  *)
(* no further step.                                                          *)
C11_SingleTerminalAnswer ==
    /\ [](\A r \in Slots :
            /\ reqs[r].calls <= 1
            /\ reqs[r].calls = Count(reqs[r].steps, "dispatch")
            /\ Len(reqs[r].writes) <= 1
            /\ reqs[r].pc = "sent" <=> Len(reqs[r].writes) = 1
            /\ reqs[r].pc = "sent" => reqs[r].writes = <<reqs[r].resp.status>>
            /\ Failed(r) =>
                 /\ Count(reqs[r].steps, "send") = 0
                 /\ Count(reqs[r].steps, "translate") = 0
                 /\ reqs[r].backend = NoOutcome => reqs[r].calls = 0)
    /\ [][\A r \in Slots : reqs[r].pc = "sent" => reqs'[r] = reqs[r]]_vars

\* a request whose provider call failed and was answered 502, the server
\* still running: one call, one write
C11_Witness ==
    /\ server.phase = "running"
    /\ reqs[1].callState = "failed"
    /\ reqs[1].calls = 1
    /\ reqs[1].writes = <<StatusBadGateway>>

-----------------------------------------------------------------------------
\* what the mounted handler makes of the input of q alone, up to the call
OwnBegin(q) ==
    IF GateMounted(config, reqs[q].in.path)
       /\ ~AuthMiddleware(config, reqs[q].in.path, reqs[q].in.authorization).pass
    THEN [call |-> NoCall,
          resp |-> AuthMiddleware(config, reqs[q].in.path,
                                  reqs[q].in.authorization).resp]
    ELSE [call |-> HandleMessagesBegin(config, q, reqs[q].in).call,
          resp |-> HandleMessagesBegin(config, q, reqs[q].in).resp]

\* the provider call of r has just failed in this step
CallFails(r) ==
    reqs[r].callState = "outstanding" /\ reqs'[r].callState = "failed"

(* C12: when the provider call of one request fails or runs into a timeout   *)
(* of the client, the handler answers that request with 502, and the step    *)
(* changes nothing of any other request, of the configuration or of the      *)
(* server; the provider call and the answer of every request are those its   *)
(* own input and its own provider outcome determine, whatever happened to    *)
(* the requests handled beside it.                                           *)
C12_FailureIsolated ==
    /\ [](\A r \in Slots : reqs[r].callState = "failed" =>
            /\ reqs[r].pc = "sent"
            /\ reqs[r].resp.status = StatusBadGateway
            /\ reqs[r].resp.msg[1] = "Failed to call ")
    /\ [][\A r \in Slots : CallFails(r) =>
            /\ \A q \in Slots \ {r} : reqs'[q] = reqs[q]
            /\ config' = config
            /\ server' = server]_vars
    /\ [](\A q \in Slots : reqs[q].pc # "idle" =>
            /\ reqs[q].call = OwnBegin(q).call
            /\ reqs[q].backend = NoOutcome => reqs[q].resp = OwnBegin(q).resp
            /\ reqs[q].backend # NoOutcome =>
                 reqs[q].resp = HandleMessagesEnd(config, reqs[q].requestID,
                                                  reqs[q].backend).resp)

\* the call of request 1 timed out and was answered 502 while the call of
\* request 2 is still outstanding
C12_Witness ==
    /\ reqs[1].callState = "failed"
    /\ reqs[1].backend.raw = "Client.Timeout exceeded"
    /\ reqs[1].resp.status = StatusBadGateway
    /\ reqs[2].pc = "dispatched"
    /\ reqs[2].callState = "outstanding"

-----------------------------------------------------------------------------
\* request r is a /health request the server has accepted
OnHealth(r) == reqs[r].pc # "idle" /\ reqs[r].in.path = "/health"

(* C13: a request to /health is answered 200 with the payload                *)
(* {status: "ok", provider: <configured provider name>} whatever its method  *)
(* and Authorization header and in both auth modes (the gate, were it put    *)
(* in front, lets the path through); handling it runs no step of the         *)
(* messages pipeline: nothing is read, parsed or validated and the provider  *)
(* is not called.                                                            *)
C13_HealthAlwaysOK ==
    \A r \in Slots : OnHealth(r) =>
        /\ reqs[r].pc = "sent"
        /\ reqs[r].resp.status = StatusOK
        /\ reqs[r].resp.payload = [kind |-> "health", status |-> "ok",
                                  provider |-> config.ProviderName]
        /\ reqs[r].writes = <<StatusOK>>
        /\ AuthMiddleware(config, reqs[r].in.path, reqs[r].in.authorization).pass
        /\ reqs[r].steps = <<"health">>
        /\ reqs[r].call = NoCall /\ reqs[r].calls = 0
        /\ reqs[r].readLen = -1 /\ reqs[r].parsedLen = -1

\* a POST to /health without Authorization header, proxy authentication in
\* force, answered 200
C13_Witness ==
    /\ AuthEnabled
    /\ OnHealth(1)
    /\ reqs[1].in.method = "POST"
    /\ reqs[1].in.authorization = <<>>
    /\ reqs[1].resp.status = StatusOK
    /\ reqs[1].resp.payload.provider = "Z.AI"

-----------------------------------------------------------------------------
(* C14: when the auth-required flag is off, or it is on but no proxy         *)
(* credential is configured, the gate lets every request through whatever    *)
(* its Authorization header (absent, exact, wrong token, other scheme,       *)
(* malformed): every accepted /v1/messages request entered HandleMessages    *)
(* and none was answered by the gate.                                        *)
C14_OpenGate ==
    (~config.AuthRequired \/ config.ProxyAuthToken = <<>>) =>
        /\ \A a \in AuthHeaders : AuthMiddleware(config, "/v1/messages", a).pass
        /\ \A r \in Slots : OnMessages(r) =>
              /\ HandlerRan(r)
              /\ reqs[r].steps[Len(GatePrefix) + 1] = "requestID"
              /\ reqs[r].requestID # ""
              /\ reqs[r].resp.status = StatusUnauthorized =>
                    /\ reqs[r].backend # NoOutcome
                    /\ reqs[r].backend.status = StatusUnauthorized

\* the flag is on, no credential is configured, and a request with a header
\* of another scheme went through the mounted gate to the provider call
C14_Witness ==
    /\ config.AuthRequired
    /\ config.ProxyAuthToken = <<>>
    /\ OnMessages(1)
    /\ reqs[1].in.authorization = <<"B", "a", "s", "i", "c", " ">> \o TokenT
    /\ reqs[1].steps[1] = "auth"
    /\ BackendCalled(1)

-----------------------------------------------------------------------------
\* the provider answered r with 200, a body that parses, and no error field
BackendSucceeded(r) ==
    /\ reqs[r].backend # NoOutcome
    /\ reqs[r].backend.kind = "response"
    /\ reqs[r].backend.status = StatusOK
    /\ reqs[r].backend.parseOK
    /\ reqs[r].backend.parsed.ErrorIsNil

\* the provider's answer of the worked example of the specification
HelloResponse ==
    ProviderResponse("abc", "m", <<Choice("hello", "stop")>>, 3, 1, TRUE, "")

(* C15: end-to-end success path.  For every POST to /v1/messages that passes *)
(* auth, size, parse and validation and whose provider call is answered 200  *)
(* with a parsable body without error field, the body sent to the provider   *)
(* is ConvertAnthropicToProvider of the parsed request and the client gets   *)
(* 200, Content-Type application/json, with ConvertProviderToAnthropic of    *)
(* the provider's response; for the request with text blocks "hi", "there"   *)
(* and the response id "abc", content "hello", finish "stop", usage 3/1 this *)
(* is one user message "hi\nthere" out, and id "msg_abc", one text item      *)
(* "hello", stop_reason "end_turn", input_tokens 3, output_tokens 1 back.    *)
C15_EndToEndSuccess ==
    \A r \in Slots : (OnMessages(r) /\ BackendSucceeded(r)) =>
        /\ FirstFailure(reqs[r].in) = "none"
        /\ reqs[r].call.body = ConvertAnthropicToProvider(reqs[r].in.body.doc)
        /\ reqs[r].resp.status = StatusOK
        /\ reqs[r].resp.ContentType = "application/json"
        /\ reqs[r].resp.payload =
              [kind |-> "message",
               message |-> ConvertProviderToAnthropic(reqs[r].backend.parsed)]
        /\ reqs[r].in.body.doc = DocExample =>
              reqs[r].call.body.Messages =
                  <<[Role |-> "user", Content |-> "hi\nthere"]>>
        /\ reqs[r].backend.parsed = HelloResponse =>
              /\ reqs[r].resp.payload.message.ID = "msg_abc"
              /\ reqs[r].resp.payload.message.Content =
                    <<[Type |-> "text", Text |-> "hello"]>>
              /\ reqs[r].resp.payload.message.StopReason = "end_turn"
              /\ reqs[r].resp.payload.message.Usage.InputTokens = 3
              /\ reqs[r].resp.payload.message.Usage.OutputTokens = 1

\* the worked example: blocks "hi", "there" in, the hello response back
C15_Witness ==
    /\ OnMessages(1)
    /\ reqs[1].in.body.doc = DocExample
    /\ BackendSucceeded(1)
    /\ reqs[1].backend.parsed = HelloResponse
    /\ reqs[1].resp.status = StatusOK

-----------------------------------------------------------------------------
\* The reference extractor of section 4.1: the elements that are blocks with
\* a string text are selected, their texts taken in list order and joined with
\* one newline between neighbours.
IsTextBlock(b) == b.isMap /\ b.textIsString

RefTexts(bs) ==
    LET sel == SelectSeq(bs, IsTextBlock)
    IN  [i \in 1..Len(sel) |-> sel[i].text]

RECURSIVE JoinLines(_)
JoinLines(ts) ==
    IF Len(ts) = 0 THEN ""
    ELSE IF Len(ts) = 1 THEN ts[1]
    ELSE JoinLines(SubSeq(ts, 1, Len(ts) - 1)) \o "\n" \o ts[Len(ts)]

\* a call of the named converter has returned
Returned(op) == conv.op = op /\ conv.done

(* C16: extractContentString equals the reference extractor on every input:  *)
(* a plain string is returned unchanged; a list gives the texts of exactly   *)
(* the elements that are blocks with a string text, in list order, joined by *)
(* a single newline, so that [{text:"a"},{other},{text:"b"}] gives "a\nb"    *)
(* and a list without such an element gives the empty string; any other      *)
(* value gives its default printed form.                                     *)
C16_ExtractMatchesReference ==
    Returned("extractContentString") =>
        /\ conv.arg.kind = "string" => conv.out.str = conv.arg.str
        /\ conv.arg.kind = "list" =>
              /\ conv.out.str = JoinLines(RefTexts(conv.arg.blocks))
              /\ (\A i \in 1..Len(conv.arg.blocks) :
                      ~IsTextBlock(conv.arg.blocks[i])) => conv.out.str = ""
        /\ conv.arg = ContentList(<<TextBlock("a"), OtherBlock, TextBlock("b")>>)
              => conv.out.str = "a\nb"
        /\ conv.arg.kind \notin {"string", "list"} => conv.out.str = conv.arg.str

\* the list of the specification's example has been extracted
C16_Witness ==
    /\ Returned("extractContentString")
    /\ conv.arg = ContentList(<<TextBlock("a"), OtherBlock, TextBlock("b")>>)
    /\ conv.out.str = "a\nb"

-----------------------------------------------------------------------------
\* the number of messages of ms whose role is "system"
SystemRoles(ms) == Cardinality({i \in 1..Len(ms) : ms[i].Role = "system"})

\* the system field is present and its extracted string is not empty
SystemGiven(req) ==
    req.System.kind # "nil" /\ extractContentString(req.System) # ""

(* C17: ConvertAnthropicToProvider puts exactly one message                  *)
(* {role: "system", content: extract(system)} in front if and only if the    *)
(* system field is present and its extracted string is not empty; when the   *)
(* field is absent or null, or extracts to the empty string (empty string,   *)
(* empty list, list without text block), the output has as many messages as  *)
(* the source and the converter introduces no message of role "system".      *)
C17_SystemMessageIffNonEmpty ==
    Returned("ConvertAnthropicToProvider") =>
        LET req == conv.arg
            out == conv.out.Messages
            n == IF SystemGiven(req) THEN 1 ELSE 0
        IN  /\ Len(out) = Len(req.Messages) + n
            /\ SystemRoles(out) = SystemRoles(req.Messages) + n
            /\ SystemGiven(req) =>
                  out[1] = [Role |-> "system",
                            Content |-> extractContentString(req.System)]
            /\ req.System \in {ContentNil, ContentString(""), ContentList(<<>>),
                               ContentList(<<OtherBlock, NonMapElement>>)}
                  => ~SystemGiven(req)
            /\ req.System = ContentString("S") =>
                  out[1] = [Role |-> "system", Content |-> "S"]

\* a request with system "S" and two messages, converted to three messages
C17_Witness ==
    /\ Returned("ConvertAnthropicToProvider")
    /\ conv.arg.System = ContentString("S")
    /\ Len(conv.arg.Messages) = 2
    /\ conv.out.Messages[1] = [Role |-> "system", Content |-> "S"]
    /\ Len(conv.out.Messages) = 3

-----------------------------------------------------------------------------
(* C18: after the optional system message ConvertAnthropicToProvider emits   *)
(* exactly one message per source message, in the source order, each with    *)
(* the source role unchanged and the extracted source content: none is       *)
(* dropped, merged or reordered; model, max_tokens, temperature and top_p    *)
(* are copied unchanged and the provider request has no other field.         *)
C18_MessagesOneToOne ==
    Returned("ConvertAnthropicToProvider") =>
        LET req == conv.arg
            out == conv.out
            off == Len(out.Messages) - Len(req.Messages)
        IN  /\ off \in {0, 1}
            /\ off = 1 <=> SystemGiven(req)
            /\ \A i \in 1..Len(req.Messages) :
                  out.Messages[off + i] =
                      [Role |-> req.Messages[i].Role,
                       Content |-> extractContentString(req.Messages[i].Content)]
            /\ out.Model = req.Model
            /\ out.MaxTokens = req.MaxTokens
            /\ out.Temperature = req.Temperature
            /\ out.TopP = req.TopP
            /\ DOMAIN out =
                  {"Model", "Messages", "MaxTokens", "Temperature", "TopP"}

\* two source messages of different roles, the first with empty content, the
\* second a list of blocks, converted behind a system message
C18_Witness ==
    /\ Returned("ConvertAnthropicToProvider")
    /\ SystemGiven(conv.arg)
    /\ conv.arg.Messages =
          <<AnthropicMessage("assistant", ContentString("")),
            AnthropicMessage("user",
                ContentList(<<TextBlock("a"), OtherBlock, TextBlock("b")>>))>>
    /\ conv.out.Messages[2] = [Role |-> "assistant", Content |-> ""]
    /\ conv.out.Messages[3] = [Role |-> "user", Content |-> "a\nb"]
    /\ conv.out.Temperature = 70

-----------------------------------------------------------------------------
(* C19: ConvertProviderToAnthropic on a response with at least one choice    *)
(* sets stop_reason to "end_turn" if and only if the finish reason of the    *)
(* first choice is exactly "stop" and to "max_tokens" for every other value  *)
(* ("length", "content_filter", "tool_calls", "", "STOP"); content is        *)
(* exactly one item {type: "text", text: content of the first choice}; the   *)
(* result is the one obtained from the first choice alone, whatever the      *)
(* later choices are.                                                        *)
C19_FirstChoiceStopReason ==
    (Returned("ConvertProviderToAnthropic") /\ Len(conv.arg.Choices) > 0) =>
        LET first == conv.arg.Choices[1]
            out == conv.out
        IN  /\ out.StopReason \in {"end_turn", "max_tokens"}
            /\ out.StopReason = "end_turn" <=> first.FinishReason = "stop"
            /\ ~out.ContentIsNil
            /\ out.Content = <<[Type |-> "text", Text |-> first.Content]>>
            /\ out = ConvertProviderToAnthropic(
                         [conv.arg EXCEPT !.Choices = <<first>>])

\* two choices, the first finished by the content filter, the second by
\* "stop": the result says "max_tokens" and carries the first content
C19_Witness ==
    /\ Returned("ConvertProviderToAnthropic")
    /\ conv.arg.Choices =
          <<Choice("hello", "content_filter"), Choice("", "stop")>>
    /\ conv.out.StopReason = "max_tokens"
    /\ conv.out.Content = <<[Type |-> "text", Text |-> "hello"]>>

-----------------------------------------------------------------------------
(* C20: ConvertProviderToAnthropic on a response without choices returns     *)
(* normally a response whose content is an empty list, not null or absent,   *)
(* whose stop_reason is the empty string, and whose id, model and usage are  *)
(* filled in from the provider's response.                                   *)
C20_EmptyChoicesEmptyList ==
    (Returned("ConvertProviderToAnthropic") /\ Len(conv.arg.Choices) = 0) =>
        /\ conv.out.Content = <<>>
        /\ ~conv.out.ContentIsNil
        /\ conv.out.StopReason = ""
        /\ conv.out.ID = "msg_" \o conv.arg.ID
        /\ conv.out.Model = conv.arg.Model
        /\ conv.out.Usage.InputTokens = conv.arg.Usage.PromptTokens
        /\ conv.out.Usage.OutputTokens = conv.arg.Usage.CompletionTokens

-----------------------------------------------------------------------------
(* C21: for every provider response ConvertProviderToAnthropic yields        *)
(* id = "msg_" followed by the provider's id, type "message", role           *)
(* "assistant", the provider's model, a null stop_sequence,                  *)
(* input_tokens = prompt_tokens, output_tokens = completion_tokens and both  *)
(* cache token fields 0, with or without choices.                            *)
C21_FixedFieldsAndUsage ==
    Returned("ConvertProviderToAnthropic") =>
        /\ conv.out.ID = "msg_" \o conv.arg.ID
        /\ conv.out.Type = "message"
        /\ conv.out.Role = "assistant"
        /\ conv.out.Model = conv.arg.Model
        /\ conv.out.StopSequenceIsNil
        /\ conv.out.Usage = [InputTokens |-> conv.arg.Usage.PromptTokens,
                             OutputTokens |-> conv.arg.Usage.CompletionTokens,
                             CacheCreationInputTokens |-> 0,
                             CacheReadInputTokens |-> 0]
        /\ conv.arg.ID = "abc" => conv.out.ID = "msg_abc"

\* the response "abc" of model "grok-2" with usage 3/1 has been converted
C21_Witness ==
    /\ Returned("ConvertProviderToAnthropic")
    /\ conv.arg.ID = "abc"
    /\ conv.arg.Model = "grok-2"
    /\ conv.arg.Usage = [PromptTokens |-> 3, CompletionTokens |-> 1]
    /\ conv.out.ID = "msg_abc"
    /\ conv.out.Usage.InputTokens = 3
    /\ conv.out.Usage.OutputTokens = 1

-----------------------------------------------------------------------------
\* the configured base URL without its last character when that is a slash
BaseWithoutSlash ==
    LET u == config.BaseURL
    IN  IF Len(u) > 0 /\ u[Len(u)] = "/" THEN [i \in 1..(Len(u) - 1) |-> u[i]]
        ELSE u

(* C22: every call the handler makes to the provider is a POST to the        *)
(* configured base URL, one trailing slash removed when there is one (only   *)
(* one: of two slashes one stays), followed by "/chat/completions"; it       *)
(* carries Authorization "Bearer <provider credential>", Content-Type        *)
(* application/json and an X-Request-ID equal to the identifier echoed to    *)
(* the client of the same request (the client's own when it sent one), and   *)
(* its body is the converted request.                                        *)
C22_OutboundCallShape ==
    /\ ProviderURL(URLPlain \o <<"/", "/">>) =
          URLPlain \o <<"/", "/chat/completions">>
    /\ \A r \in Slots : BackendCalled(r) =>
          /\ reqs[r].call.method = "POST"
          /\ reqs[r].call.url = BaseWithoutSlash \o <<"/chat/completions">>
          /\ reqs[r].call.Authorization = <<"Bearer ", config.AuthToken>>
          /\ reqs[r].call.ContentType = "application/json"
          /\ reqs[r].call.XRequestID = reqs[r].requestID
          /\ reqs[r].call.XRequestID # ""
          /\ reqs[r].in.xRequestID # "" =>
                reqs[r].call.XRequestID = reqs[r].in.xRequestID
          /\ reqs[r].pc = "sent" =>
                reqs[r].resp.XRequestID = reqs[r].call.XRequestID
          /\ reqs[r].call.body = ConvertAnthropicToProvider(reqs[r].in.body.doc)

\* the base URL ends in a slash, the client sent its own X-Request-ID, and
\* the request was answered after its provider call
C22_Witness ==
    /\ config.BaseURL = URLPlain \o <<"/">>
    /\ BackendCalled(1)
    /\ reqs[1].in.xRequestID = "rid-7"
    /\ reqs[1].call.url = URLPlain \o <<"/chat/completions">>
    /\ reqs[1].pc = "sent"
    /\ reqs[1].resp.XRequestID = "rid-7"

-----------------------------------------------------------------------------
\* the handler of r got as far as reading the body
ReadRan(r) == \E i \in 1..Len(reqs[r].steps) : reqs[r].steps[i] = "read"

(* C23: in every reachable state the number of body bytes the handler has    *)
(* read, and the number it has handed to the parser, are at most 10 MiB,     *)
(* whether the Content-Length is accurate, missing (chunked) or lying; a     *)
(* body longer than that is read up to exactly 10 MiB and no further.        *)
C23_ReadAtMostTenMiB ==
    \A r \in Slots :
        /\ reqs[r].readLen <= 10 * 1024 * 1024
        /\ reqs[r].parsedLen <= 10 * 1024 * 1024
        /\ reqs[r].parsedLen <= reqs[r].readLen
        /\ (ReadRan(r) /\ Delivered(reqs[r].in) > 10 * 1024 * 1024) =>
              reqs[r].readLen = 10 * 1024 * 1024

\* a chunked body of 10 MiB + 1 bytes, no Content-Length: read stops at 10 MiB
C23_Witness ==
    /\ OnMessages(1)
    /\ reqs[1].in.contentLength = -1
    /\ reqs[1].in.body.len = MaxRequestBodySize + 1
    /\ ReadRan(1)
    /\ reqs[1].readLen = MaxRequestBodySize

-----------------------------------------------------------------------------
\* r is handled in this step: its record changes
Handled(r) == reqs'[r] # reqs[r]

\* the answer of r with the generated part of the request ID taken out
AnswerOf(r) == [reqs[r].resp EXCEPT !.XRequestID = ""]

(* C24: handling a request, on any success or failure path, leaves the       *)
(* Config unchanged and writes nothing in the record of another request;     *)
(* the input of a request, once taken, is never altered; and the outcome     *)
(* depends only on the request's own input, the Config and its own provider  *)
(* response: two requests with the same input and the same provider outcome  *)
(* were answered alike and ran the same steps, and each request carries the  *)
(* identifier generated for it alone.                                        *)
C24_HandlerFrame ==
    /\ [][\A r \in Slots : Handled(r) =>
            /\ config' = config
            /\ \A q \in Slots \ {r} : reqs'[q] = reqs[q]
            /\ reqs[r].pc # "idle" =>
                  /\ reqs'[r].in = reqs[r].in
                  /\ reqs'[r].requestID = reqs[r].requestID
                  /\ reqs'[r].call = reqs[r].call]_vars
    /\ [](\A r \in Slots : \A q \in Slots :
            (/\ reqs[r].pc = "sent" /\ reqs[q].pc = "sent"
             /\ reqs[r].in = reqs[q].in
             /\ reqs[r].backend = reqs[q].backend) =>
                /\ AnswerOf(r) = AnswerOf(q)
                /\ reqs[r].steps = reqs[q].steps)
    /\ [](\A r \in Slots :
            HandlerRan(r) => reqs[r].requestID = NewUUID(r))

\* one request failed validation of its body, the other was answered 200
\* after its provider call: both paths side by side
C24_Witness ==
    /\ reqs[1].pc = "sent"
    /\ reqs[1].resp.status = StatusBadRequest
    /\ reqs[2].pc = "sent"
    /\ reqs[2].resp.status = StatusOK
    /\ reqs[2].callState = "completed"

-----------------------------------------------------------------------------
\* the handler of r ran the conversion step
ConvertRan(r) == \E i \in 1..Len(reqs[r].steps) : reqs[r].steps[i] = "convert"

\* the content shapes of the parsed request of r
ShapesOf(r) ==
    {reqs[r].in.body.doc.Messages[i].Content.kind :
        i \in 1..Len(reqs[r].in.body.doc.Messages)}
    \cup {reqs[r].in.body.doc.System.kind}

(* C25: request conversion is total.  extractContentString returns no error  *)
(* for any content shape (string, list, number, object, null), so            *)
(* ConvertAnthropicToProvider returns no error on a validated request: every *)
(* request that reached the conversion step went on to the marshal step, and *)
(* no request is ever answered 500 "Failed to convert request".              *)
C25_ConversionTotal ==
    \A r \in Slots : OnMessages(r) =>
        /\ (reqs[r].pc = "sent" /\ reqs[r].resp.msg # <<>>) =>
              reqs[r].resp.msg[1] # "Failed to convert request: "
        /\ ConvertRan(r) =>
              /\ ConvertAnthropicToProviderErr(reqs[r].in.body.doc) = <<>>
              /\ \E i \in 1..Len(reqs[r].steps) : reqs[r].steps[i] = "marshal"
        /\ PassedValidation(r) => ConvertRan(r)

\* a validated request whose contents are a list, a number, null and an
\* object, with a list as system field, was converted and sent on
C25_Witness ==
    /\ OnMessages(1)
    /\ BackendCalled(1)
    /\ ConvertRan(1)
    /\ ShapesOf(1) = {"list", "other", "nil"}
    /\ Len(reqs[1].in.body.doc.Messages) = 4

-----------------------------------------------------------------------------
\* the schema rules in their fixed order: model, messages-empty,
\* messages-too-many, max_tokens, temperature, top_p
Violates(doc, k) ==
    CASE k = 1 -> doc.Model = ""
      [] k = 2 -> Len(doc.Messages) = 0
      [] k = 3 -> Len(doc.Messages) > 100
      [] k = 4 -> doc.MaxTokens > 100000 \/ doc.MaxTokens < 0
      [] k = 5 -> doc.Temperature < 0 \/ doc.Temperature > 200
      [] k = 6 -> doc.TopP < 0 \/ doc.TopP > 100

\* the openings of the error messages of rule k
RuleOpenings(k) ==
    CASE k = 1 -> {"model is required"}
      [] k = 2 -> {"messages array cannot be empty"}
      [] k = 3 -> {"too many messages: "}
      [] k = 4 -> {"max_tokens too large: ", "max_tokens cannot be negative"}
      [] k = 5 -> {"temperature must be between 0 and 2, got: "}
      [] k = 6 -> {"top_p must be between 0 and 1, got: "}

ViolatedRules(doc) == {k \in 1..6 : Violates(doc, k)}

(* C26: when a parsed request violates several schema rules at once,         *)
(* ValidateAnthropicRequest reports only the first violated rule in the      *)
(* order model, messages-empty, messages-too-many, max_tokens, temperature,  *)
(* top_p: the 400 answer carries the message of rule k only when rule k is   *)
(* violated and every rule before it holds.                                  *)
C26_FirstViolatedRuleWins ==
    \A r \in Slots :
        (ReachedValidation(r) /\ ViolatedRules(reqs[r].in.body.doc) # {}) =>
            LET doc == reqs[r].in.body.doc
                first == CHOOSE k \in ViolatedRules(doc) :
                            \A j \in ViolatedRules(doc) : k <= j
            IN  /\ reqs[r].resp.status = StatusBadRequest
                /\ reqs[r].resp.msg = ValidateAnthropicRequest(doc)
                /\ reqs[r].resp.msg[1] \in RuleOpenings(first)
                /\ \A k \in 1..6 : reqs[r].resp.msg[1] \in RuleOpenings(k) =>
                      /\ Violates(doc, k)
                      /\ \A j \in 1..(k - 1) : ~Violates(doc, j)

\* a request without model, without messages, with negative max_tokens and
\* top_p above 1 is answered "model is required"; and the rule witnessed is
\* the first of four violated ones
C26_Witness ==
    /\ OnMessages(1)
    /\ ReachedValidation(1)
    /\ ViolatedRules(reqs[1].in.body.doc) = {1, 2, 4, 6}
    /\ reqs[1].resp.msg = <<"model is required">>

-----------------------------------------------------------------------------
(* C27: the binaries x-ai-proxy.go and z-ai-proxy.go behave as the shared    *)
(* proxy package: for every parsed request the provider request built by     *)
(* their handleMessages (system message, flattened contents, copied fields)  *)
(* equals ConvertAnthropicToProvider of it, and the provider is called only  *)
(* for requests that pass ValidateAnthropicRequest.                          *)
C27_BinariesMatchPackage ==
    Returned("handleMessages") =>
        /\ conv.out.body = ConvertAnthropicToProvider(conv.arg)
        /\ conv.out.called <=> ValidateAnthropicRequest(conv.arg) = <<>>
-----------------------------------------------------------------------------
\* p.client.Do returned an error for r: the provider could not be reached
BackendUnreachable(r) ==
    reqs[r].backend # NoOutcome /\ reqs[r].backend.kind = "error"

\* the provider answered r with 200 and a body that is not JSON
BackendUnparsable(r) ==
    /\ reqs[r].backend # NoOutcome
    /\ reqs[r].backend.kind = "response"
    /\ reqs[r].backend.status = StatusOK
    /\ ~reqs[r].backend.parseOK

\* the provider answered r with 200 and a body whose error field is not null
BackendReportedError(r) ==
    /\ reqs[r].backend # NoOutcome
    /\ reqs[r].backend.kind = "response"
    /\ reqs[r].backend.status = StatusOK
    /\ reqs[r].backend.parseOK
    /\ ~reqs[r].backend.parsed.ErrorIsNil

\* piece occurs in the message msg
Mentions(msg, piece) == \E i \in 1..Len(msg) : msg[i] = piece

(* C28: when the backend cannot be reached, or answers 200 with a body that  *)
(* does not parse, or answers 200 with a body carrying a non-null error      *)
(* field (even if choices are present), the client receives status 502 with  *)
(* the provider name in the message, and no translated success response is   *)
(* produced.                                                                 *)
C28_BackendFailureIs502 ==
    \A r \in Slots :
        (OnMessages(r) /\ (\/ BackendUnreachable(r)
                           \/ BackendUnparsable(r)
                           \/ BackendReportedError(r))) =>
            /\ reqs[r].writes = <<StatusBadGateway>>
            /\ reqs[r].resp.status = StatusBadGateway
            /\ Mentions(reqs[r].resp.msg, config.ProviderName)
            /\ reqs[r].resp.payload = NoPayload
            /\ ~Mentions(reqs[r].steps, "translate")

\* the Z.AI provider answers 200 with an error field next to a choice
C28_Witness ==
    /\ OnMessages(1)
    /\ config.ProviderName = "Z.AI"
    /\ BackendReportedError(1)
    /\ reqs[1].backend.parsed.Choices # <<>>
    /\ reqs[1].resp.status = StatusBadGateway
-----------------------------------------------------------------------------
\* the classes of a status code
SuccessClass(st) == st \div 100 = 2
ErrorClass(st) == st \div 100 \in {4, 5}

(* C29: a success-class (2xx) status is written to the client of             *)
(* /v1/messages only when the backend answered exactly 200 with a parsable   *)
(* body and no error field; in every other situation (any other backend      *)
(* status, including other 2xx or 3xx codes) the status written to the       *)
(* client is an error-class status (4xx or 5xx).                             *)
C29_SuccessOnlyOnBackend200 ==
    \A r \in Slots : \A i \in 1..Len(reqs[r].writes) :
        OnMessages(r) =>
            /\ SuccessClass(reqs[r].writes[i]) => BackendSucceeded(r)
            /\ ~BackendSucceeded(r) => ErrorClass(reqs[r].writes[i])
-----------------------------------------------------------------------------
\* the provider call of r returned inside the limits of the outbound client
WithinClientLimits(r) ==
    /\ reqs[r].backend.headersAt <= ResponseHeaderTimeout
    /\ reqs[r].backend.took <= ClientTimeout

(* C30: every validated request whose backend call completes successfully    *)
(* within the outbound client's limits (30 s overall, 10 s to response       *)
(* headers) has its 200 response delivered to the client; no server-side     *)
(* deadline (15 s read/write timeout) expires first and discards a response  *)
(* the backend produced in time.  Stated on the finished handler of a client *)
(* that is still connected: its 200 answer has reached the client.           *)
C30_TimelyAnswerDelivered ==
    \A r \in Slots :
        (/\ OnMessages(r)
         /\ reqs[r].pc = "sent"
         /\ BackendSucceeded(r)
         /\ WithinClientLimits(r)
         /\ ~reqs[r].clientGone) =>
            /\ reqs[r].resp.status = StatusOK
            /\ reqs[r].received

====
